---- MODULE Spec2Model ----
(***************************************************************************)
(* A model of the readiness / lazy-load / gate core of                     *)
(* github-app-setup-go: ghappsetup.Runtime (NewRuntime, Start,              *)
(* EnsureLoaded, ResetLoadState, Reload, Handler) and configwait (Wait,     *)
(* ReadyGate).                                                              *)
(*                                                                         *)
(* Goroutines are the processes Procs; each one makes calls on one shared  *)
(* Runtime.  A call is split at every point where another goroutine can    *)
(* observe or change shared state: a mutex acquisition, a LoadFunc          *)
(* invocation (begin / return), a retry wait, a poll of waitForLoad.        *)
(* Steps that touch only the goroutine's own locals are merged into the    *)
(* shared step before them.                                                 *)
(***************************************************************************)
EXTENDS Integers, Sequences, FiniteSets, TLC

\* ------------------------------------------------------------- bounds
NProcs == 2          \* goroutines calling into the Runtime
NGateProcs == 1      \* goroutines calling into the Runtime of the gated server
MaxCalls == 2        \* calls started in one behaviour, over all goroutines
MaxCfgRetries == 2   \* largest Config.MaxRetries the embedder passes
NHandlers == 2       \* distinct inner handlers handed to Runtime.Handler
GateCalls == 2       \* calls started in one behaviour of the gated server
NLambdaProcs == 3    \* goroutines (invocations) sharing one Lambda Runtime
LambdaCalls == 3     \* calls started in one behaviour of the Lambda Runtime
IdemCalls == 4       \* calls started by the three goroutines of SpecIdem
MaxTriggers == 2     \* calls of the reload trigger in one behaviour
MaxSignals == 1      \* SIGHUPs delivered in one behaviour
MaxOutcomes == 3     \* LoadFunc outcomes given to one run of a retry loop
RaceCalls == 1       \* Start / EnsureLoaded calls made while the listener runs
MaxPathLen == 2      \* longest request path and allowed entry, in characters
MaxListLen == 2      \* longest Config.AllowedPaths
NFleetProcs == 2     \* goroutines calling into the Runtimes of one process
FleetCalls == 2      \* calls those goroutines make in total
NSetters == 2        \* goroutines calling SetHandler or Runtime.Handler
NStarts == 2         \* calls of Reloader.Start
MaxReloadEvents == 3 \* Reloader.Trigger calls and SIGHUPs in total

Procs == 1..NProcs
GateProcs == 1..NGateProcs
LambdaProcs == 1..NLambdaProcs
Handlers == 1..NHandlers
NoHandler == 0       \* the gate's atomic.Value holds nothing yet
NoProc == 0          \* a mutex nobody holds
Runtimes == {"A", "B"}
Records == 1 .. Cardinality(Runtimes)
FleetProcs == 1 .. NFleetProcs
Setters == 1 .. NSetters
RlGoroutines == 1 .. NStarts

\* ------------------------------------------------------- error values
\* Go error values: nil, the context's cancellation error, and the error
\* returned by the k-th LoadFunc invocation of goroutine p's current call.
Nil == <<"nil", 0, 0>>
Canceled == <<"canceled", 0, 0>>
LoadError(p, k) == <<"load", p, k>>

\* ------------------------------------------------------ configuration
\* Config.MaxRetries values passed to NewRuntime.  Zero selects the
\* environment default (30 or 5 attempts: the same loop, only longer) and
\* is not drawn here; negative values are accepted by NewRuntime unchanged.
MaxRetriesInputs == (-1 .. MaxCfgRetries) \ {0}

defaultHTTPMaxRetries == 30
defaultLambdaMaxRetries == 5

\* NewRuntime: the MaxRetries the Runtime ends up with.
NewRuntimeMaxRetries(cfgMaxRetries, e) ==
    IF cfgMaxRetries = 0
    THEN IF e = "Lambda" THEN defaultLambdaMaxRetries ELSE defaultHTTPMaxRetries
    ELSE cfgMaxRetries

\* Config.RetryInterval values passed to NewRuntime, in seconds.  Zero
\* selects the environment default; a negative duration is kept as it is.
RetryIntervalInputs == {-1, 0}

defaultHTTPRetryInterval == 2
defaultLambdaRetryInterval == 1

\* NewRuntime: the RetryInterval the Runtime ends up with.
NewRuntimeRetryInterval(cfgRetryInterval, e) ==
    IF cfgRetryInterval = 0
    THEN IF e = "Lambda" THEN defaultLambdaRetryInterval
         ELSE defaultHTTPRetryInterval
    ELSE cfgRetryInterval

\* Request paths and Config.AllowedPaths, strings as sequences of characters.
Paths == { <<"/", "h", "z">>, <<"/", "a">> }
AllowedPathLists == { << <<"/">>, <<"/", "h">> >> }

VARIABLES
    env,            \* Runtime.env: "HTTP" or "Lambda"
    maxRetries,     \* Runtime.config.MaxRetries after NewRuntime's defaults
    retryInterval,  \* Runtime.config.RetryInterval after NewRuntime's defaults
    allowedPaths,   \* ReadyGate.allowedPaths
    ready,          \* Runtime.ready
    gateReady,      \* ReadyGate.ready (the gate exists when env = "HTTP")
    gateHandler,    \* ReadyGate.handler
    handlerReadyClosed, \* ReadyGate.handlerReady is closed
    gateMu,         \* holder of ReadyGate.mu
    sh,             \* each goroutine's SetHandler / Runtime.Handler call
    setHandlerArg,  \* the argument of the latest SetHandler call
    setHandlerPanic, \* a SetHandler call panicked in handler.Store
    loading,        \* lambdaState.loading
    loaded,         \* lambdaState.loaded
    lastError,      \* lambdaState.lastError
    stateMu,        \* holder of lambdaState.mu
    rMu,            \* the goroutine holding Runtime.mu for writing
    rReaders,       \* the goroutines holding Runtime.mu for reading
    g,              \* each goroutine's frame: see Frame0
    callsLeft,      \* calls that may still be started
    loadOk,         \* history: a LoadFunc invocation of Start/EnsureLoaded succeeded
    firstEl,        \* history: outcome of EnsureLoaded's first LoadFunc invocation
    firstElProc,    \* history: the goroutine that made that first invocation
    elInv,          \* history: LoadFunc invocations made by EnsureLoaded
    resets,         \* history: ResetLoadState has been called
    nilSeen,        \* history: an EnsureLoaded returned nil since the last reset
    dpc,            \* where the request goroutine is inside ServeHTTP
    dpath,          \* the path of the request being served
    resp,           \* the response to the last request served
    served,         \* what Runtime.Handler returned last, the server's handler
    reloadCh,       \* tokens buffered in Runtime.reloadCh
    sigCh,          \* signals buffered in ListenForReloads' sigCh
    sigSub,         \* sigCh is subscribed to SIGHUP (signal.Notify .. signal.Stop)
    lpc,            \* where the goroutine of ListenForReloads is
    lcancelled,     \* the context passed to ListenForReloads is canceled
    doneClosed,     \* how many times the listener's done channel was closed
    trigsLeft,      \* trigger calls that may still be made
    sigsLeft,       \* SIGHUPs that may still be delivered
    burst,          \* history: trigger calls since the listener last took a token
    owed,           \* history: a trigger was called and no reload began since
    lres,           \* history: outcome of the listener's last LoadFunc invocation
    lactive,        \* LoadFunc invocations of the listener that have not returned
    errCh,          \* the values buffered in StartAsync's errCh
    errChClosed,    \* errCh is closed
    apc,            \* where the call of StartAsync and its goroutine are
    abg,            \* the goroutine StartAsync spawned
    arecv,          \* history: the values received from errCh
    tableMu,        \* holder of lambdaStates.mu
    lambdaStates,   \* lambdaStates.states: the record of each Runtime, 0 if none
    recs,           \* the lambdaState records: mu's holder, loading, loaded, lastError
    rts,            \* each Runtime's ready flag and the holders of its mu
    fl,             \* each goroutine's call on one of the Runtimes
    flLeft,         \* calls on the Runtimes that may still be started
    rlpc,           \* where each goroutine spawned by Reloader.Start is
    rlReloading,    \* Reloader.reloading
    rlMu,           \* holder of Reloader.mu
    rlCh,           \* tokens buffered in Reloader.reloadCh
    rlSig,          \* signals buffered in each goroutine's sighupCh
    rlCtxDone,      \* Reloader.ctx is canceled
    rlLeft,         \* triggers and SIGHUPs that may still happen
    rlLast          \* history: how the last reloadFunc ended

cfgVars == <<env, maxRetries, retryInterval, allowedPaths>>
gateVars == <<gateReady, gateHandler, handlerReadyClosed, gateMu, sh,
              setHandlerArg, setHandlerPanic>>
guardVars == <<loading, loaded, lastError>>
muVars == <<stateMu, rMu, rReaders>>
histVars == <<loadOk, firstEl, firstElProc, elInv, resets, nilSeen>>
reqVars == <<dpc, dpath, resp, served>>
rtVars == <<cfgVars, ready, gateVars, guardVars, muVars, g, callsLeft, histVars, reqVars>>
chVars == <<reloadCh, sigCh, sigSub>>
lsnVars == <<lpc, lcancelled, doneClosed, lres, lactive>>
trigVars == <<trigsLeft, sigsLeft, burst, owed>>
sigVars == <<chVars, lsnVars, trigVars>>
asyncVars == <<errCh, errChClosed, apc, abg, arecv>>
fleetVars == <<tableMu, lambdaStates, recs, rts, fl, flLeft>>
rlVars == <<rlpc, rlReloading, rlMu, rlCh, rlSig, rlCtxDone, rlLeft, rlLast>>
extVars == <<fleetVars, rlVars>>
vars == <<rtVars, sigVars, asyncVars, extVars>>

\* A goroutine's frame.  pc: where it is; op: the call it is in, or made
\* last; attempt, lastErr: the locals of loadWithRetry / Wait; ret: the err
\* local of EnsureLoaded / Start and, once pc is "idle" again, what the call
\* returned; val: what an IsReady call returned; cancelled: the call's
\* context is canceled.  History: role, how
\* an EnsureLoaded call went ("fast", "waiter", "loader") or how a
\* ResetLoadState call found the guard ("loaded"); inv, the LoadFunc
\* invocations of this call; okAt, the attempt at which LoadFunc returned
\* nil (0: none did); late, the call began after an EnsureLoaded had
\* returned nil, with no ResetLoadState since; waitCancel, see Canceling;
\* resetDuring, a ResetLoadState began while the call was in progress;
\* heard, for a waiter, what the first loader to finish since it began to
\* wait returned.
NoOutcome == <<"none", 0, 0>>

Frame0 ==
    [pc |-> "idle", op |-> "none", attempt |-> 0, lastErr |-> Nil, ret |-> Nil,
     cancelled |-> FALSE, role |-> "none", inv |-> 0, okAt |-> 0,
     late |-> FALSE, waitCancel |-> 0, resetDuring |-> FALSE,
     heard |-> NoOutcome, val |-> FALSE]

\* A goroutine of the program outside any SetHandler or Runtime.Handler
\* call.  In a call: pc, where it is; op, the call; h, the inner handler
\* of a Runtime.Handler call (SetHandler has no use of its argument once
\* it is stored).
SetterFrame0 == [pc |-> "idle", op |-> "none", h |-> NoHandler]

\* What the server serves with: nothing before Runtime.Handler was called,
\* then the gate, or the inner handler h itself.
NotServed == <<"none", NoHandler>>
TheGate == <<"gate", NoHandler>>
Inner(h) == <<"inner", h>>

NoResp ==
    [path |-> <<>>, status |-> 0, message |-> "", retryAfter |-> 0,
     handler |-> NoHandler]

\* NewRuntime: a fresh Runtime in either environment; nothing loaded, no
\* handler, no lock held, every goroutine outside any call.
\* A call in flight on one of the Runtimes.
FleetFrame0 ==
    [pc |-> "idle", op |-> "none", rt |-> "none", state |-> 0, err |-> Nil,
     val |-> FALSE]

FleetOps == {"EnsureLoaded", "ResetLoadState", "IsReady", "Start",
             "HealthHandler"}

\* lambdaState{}: the zero value getLambdaState allocates.
NewLambdaState ==
    [mu |-> NoProc, loading |-> FALSE, loaded |-> FALSE, lastError |-> Nil]

\* A Runtime after NewRuntime: not ready, r.mu free.
NewFleetRuntime == [ready |-> FALSE, w |-> NoProc, readers |-> {}]

FleetOff ==
    /\ tableMu = NoProc
    /\ lambdaStates = [r \in Runtimes |-> 0]
    /\ recs = [i \in Records |-> NewLambdaState]
    /\ rts = [r \in Runtimes |-> NewFleetRuntime]
    /\ fl = [p \in FleetProcs |-> FleetFrame0]
    /\ flLeft = 0

FleetOn ==
    /\ tableMu = NoProc
    /\ lambdaStates = [r \in Runtimes |-> 0]
    /\ recs = [i \in Records |-> NewLambdaState]
    /\ rts = [r \in Runtimes |-> NewFleetRuntime]
    /\ fl = [p \in FleetProcs |-> FleetFrame0]
    /\ flLeft = FleetCalls

ReloaderOff ==
    /\ rlpc = [i \in RlGoroutines |-> "none"]
    /\ rlReloading = FALSE
    /\ rlMu = NoProc
    /\ rlCh = 0
    /\ rlSig = [i \in RlGoroutines |-> 0]
    /\ rlCtxDone = FALSE
    /\ rlLeft = 0
    /\ rlLast = "none"

\* NewReloader: nothing started, reloading false, reloadCh empty.
ReloaderOn ==
    /\ rlpc = [i \in RlGoroutines |-> "none"]
    /\ rlReloading = FALSE
    /\ rlMu = NoProc
    /\ rlCh = 0
    /\ rlSig = [i \in RlGoroutines |-> 0]
    /\ rlCtxDone = FALSE
    /\ rlLeft = MaxReloadEvents
    /\ rlLast = "none"

\* The Runtime, its gate, its listener and StartAsync after construction.
InitCore(lists, retries, intervals, envs, procs, calls) ==
    /\ env \in envs
    /\ \E m \in retries : maxRetries = NewRuntimeMaxRetries(m, env)
    /\ \E d \in intervals : retryInterval = NewRuntimeRetryInterval(d, env)
    /\ allowedPaths \in lists
    /\ ready = FALSE
    /\ gateReady = FALSE
    /\ gateHandler = NoHandler
    /\ handlerReadyClosed = FALSE
    /\ gateMu = NoProc
    /\ sh = [s \in Setters |-> SetterFrame0]
    /\ setHandlerArg = NoHandler
    /\ setHandlerPanic = FALSE
    /\ loading = FALSE
    /\ loaded = FALSE
    /\ lastError = Nil
    /\ stateMu = NoProc
    /\ rMu = NoProc
    /\ rReaders = {}
    /\ g = [p \in procs |-> Frame0]
    /\ callsLeft = calls
    /\ loadOk = FALSE
    /\ firstEl = "none"
    /\ firstElProc = NoProc
    /\ elInv = 0
    /\ resets = FALSE
    /\ nilSeen = FALSE
    /\ dpc = "idle"
    /\ dpath = <<>>
    /\ resp = NoResp
    /\ served = NotServed
    /\ reloadCh = 0
    /\ sigCh = 0
    /\ sigSub = FALSE
    /\ lpc = "none"
    /\ lcancelled = FALSE
    /\ doneClosed = 0
    /\ trigsLeft = MaxTriggers
    /\ sigsLeft = MaxSignals
    /\ burst = 0
    /\ owed = FALSE
    /\ lres = "none"
    /\ lactive = 0
    /\ errCh = <<>>
    /\ errChClosed = FALSE
    /\ apc = "none"
    /\ abg = NoProc
    /\ arecv = <<>>

\* NewRuntime of the Runtime under study, nothing else running.
InitGen(lists, retries, envs, procs, calls) ==
    /\ InitCore(lists, retries, RetryIntervalInputs, envs, procs, calls)
    /\ FleetOff
    /\ ReloaderOff

\* NewRuntime given the allowed paths of the example configuration.
InitFrom(retries, envs, procs, calls) ==
    InitGen(AllowedPathLists, retries, envs, procs, calls)

\* NewRuntime given a MaxRetries that is not zero (the defaults, 30 and 5,
\* make the same loops run longer).
InitWith(envs, procs, calls) == InitFrom(MaxRetriesInputs, envs, procs, calls)

\* The Runtime on its own, in either environment.
Init == InitWith({"HTTP", "Lambda"}, Procs, MaxCalls)

\* The Runtime of an HTTP server, behind which requests arrive.
InitGate == InitWith({"HTTP"}, GateProcs, GateCalls)

\* The Runtime of a Lambda function, loaded lazily by its invocations.
InitLambda == InitWith({"Lambda"}, LambdaProcs, LambdaCalls)

\* The goroutines of this behaviour.
Callers == DOMAIN g

\* r.gate != nil: NewRuntime builds a gate only in the HTTP environment.
HasGate == env = "HTTP"

\* ------------------------------------------------------ call framing
\* The frame of a call of `name` that is just starting.
NewFrame(name) == [Frame0 EXCEPT !.op = name, !.pc = "enter"]

\* The frame after the call returned e: its locals are gone.
Returned(f, e) ==
    [f EXCEPT !.pc = "idle", !.ret = e, !.attempt = 0, !.lastErr = Nil]

\* A goroutine outside any call may start one while calls are left.
CanCall(p) == g[p].pc = "idle" /\ callsLeft > 0

\* Where a call still has a use of its context ahead: a LoadFunc invocation
\* in progress, a wait between attempts, a poll of waitForLoad.
UsesContext(f) ==
    f.pc \in {"lwr_load", "lwr_wait", "w_load", "w_wait", "el_wait", "rl_load"}

\* time.After(RetryInterval) of the select between attempts: with a
\* duration that is not positive the timer is due as soon as it is made.
TimerDue == retryInterval <= 0

\* The select between attempts of a call with frame f can take the timer's
\* case: ctx.Done() is not ready (the timer fires first), or the timer is
\* due at once and the select chooses among its ready cases at random.
TimerCase(f) == ~f.cancelled \/ TimerDue

\* The frame once the call's context is canceled.  History: waitCancel is
\* the attempt after which the cancellation met a wait between attempts
\* whose timer was still running.
Canceling(f) ==
    [f EXCEPT !.cancelled = TRUE,
              !.waitCancel = IF f.pc \in {"lwr_wait", "w_wait"} /\ ~TimerDue
                             THEN f.attempt ELSE 0]

\* The context of a call in progress is canceled by its owner.  (After the
\* call's last use of the context a cancellation changes nothing.)
Cancel(p) ==
    /\ UsesContext(g[p])
    /\ ~g[p].cancelled
    /\ g' = [g EXCEPT ![p] = Canceling(g[p])]
    /\ UNCHANGED <<extVars, cfgVars, ready, gateVars, guardVars, muVars, callsLeft,
                   histVars, reqVars>>

\* ---------------------------------------------------- loadWithRetry
\* The loop condition and the wait-before-next-attempt test.
lwrLoopCond(a) == a <= maxRetries
lwrWaits(a) == a < maxRetries

\* The top of the loop with attempt a: invoke LoadFunc, or leave the loop
\* and return lastErr to EnsureLoaded.
lwrTop(f, a) ==
    IF lwrLoopCond(a)
    THEN [f EXCEPT !.attempt = a, !.pc = "lwr_load", !.inv = @ + 1]
    ELSE [f EXCEPT !.attempt = a, !.pc = "el_finish", !.ret = f.lastErr]

\* Mutant of lwrSucceeded: the success path returns lastErr, as the end of
\* the function does.
lwrSucceeded_ReturnsLastErr(f) ==
    [f EXCEPT !.pc = "el_finish", !.ret = f.lastErr, !.okAt = f.attempt]

\* LoadFunc returned nil: loadWithRetry returns nil.
lwrSucceeded(f) == [f EXCEPT !.pc = "el_finish", !.ret = Nil, !.okAt = f.attempt]

\* LoadFunc returned the error e: remember it, then wait before the next
\* attempt, or go straight to the loop's next iteration after the last one.
lwrFailed(f, e) ==
    LET f1 == [f EXCEPT !.lastErr = e]
    IN  IF lwrWaits(f.attempt)
        THEN [f1 EXCEPT !.pc = "lwr_wait"]
        ELSE lwrTop(f1, f.attempt + 1)

\* Mutant of lwrCanceled: the canceled wait returns lastErr.
lwrCanceled_ReturnsLastErr(f) == [f EXCEPT !.pc = "el_finish", !.ret = f.lastErr]

\* The select between attempts chose ctx.Done(): return ctx.Err().
lwrCanceled(f) == [f EXCEPT !.pc = "el_finish", !.ret = Canceled]

\* History: f2 is the frame of an EnsureLoaded that has just invoked LoadFunc.
ElInvoked(f2) == f2.pc = "lwr_load"

\* ---------------------------------------------------- EnsureLoaded
\* Mutant of the loading test below: the test is missing.
ElMustWait_Never == FALSE

\* What EnsureLoaded does with the state it finds under state.mu.
ElFastPath == loaded
ElMustWait == loading

\* Mutant of ElUnlocked: the loader keeps state.mu while it loads.
ElUnlocked_LoaderKeepsLock(p, f2) == IF f2.role = "loader" THEN p ELSE NoProc

\* The holder of state.mu once EnsureLoaded has looked at the state: each
\* of the three branches unlocks (lines 66, 72, 79), the loader's before
\* it calls loadWithRetry.
ElUnlocked(p, f2) == NoProc

\* Mutant of LookupState: one record serves every Runtime.
LookupState_Shared(tbl, r) ==
    IF \E x \in Runtimes : tbl[x] # 0
    THEN tbl[CHOOSE x \in Runtimes : tbl[x] # 0]
    ELSE 0

\* lambdaStates.states[r], line 33: the record stored under the key r, or
\* none (0).
LookupState(tbl, r) == tbl[r]

\* The Runtime whose calls are followed step by step; its key in the
\* lambdaStates table.
ThisRuntime == "A"

\* The record getLambdaState allocates when the table has none for the
\* Runtime: the next one not yet handed out.
FreshState(tbl) == Cardinality({ x \in Runtimes : tbl[x] # 0 }) + 1

\* getLambdaState, lines 30-38, run under lambdaStates.mu: the table it
\* leaves, with a fresh record stored for the Runtime r that had none.
getLambdaState(tbl, r) ==
    IF LookupState(tbl, r) # 0 THEN tbl ELSE [tbl EXCEPT ![r] = FreshState(tbl)]

\* EnsureLoaded, line 61: the call begins with getLambdaState; it is then
\* in front of state.mu.Lock() of line 64, which it has yet to get.
EnsureLoadedCall(p) ==
    /\ CanCall(p)
    /\ tableMu = NoProc
    /\ lambdaStates' = getLambdaState(lambdaStates, ThisRuntime)
    /\ g' = [g EXCEPT ![p] = [NewFrame("EnsureLoaded") EXCEPT
                                 !.pc = "el_lock", !.late = nilSeen]]
    /\ callsLeft' = callsLeft - 1
    /\ UNCHANGED <<tableMu, recs, rts, fl, flLeft, rlVars, cfgVars, ready,
                   gateVars, guardVars, muVars, histVars, reqVars>>

\* EnsureLoaded, lines 64-81: lock; fast path, wait, or become the loader;
\* unlock; the loader enters loadWithRetry.
EnsureLoadedEnter(p) ==
    /\ g[p].pc = "el_lock"
    /\ stateMu = NoProc
    /\ LET f0 == g[p]
           f2 == IF ElFastPath THEN Returned([f0 EXCEPT !.role = "fast"], Nil)
                 ELSE IF ElMustWait
                      THEN [f0 EXCEPT !.role = "waiter", !.pc = "el_wait"]
                      ELSE lwrTop([f0 EXCEPT !.role = "loader"], 1)
       IN  /\ g' = [g EXCEPT ![p] = f2]
           /\ loading' = IF ElFastPath \/ ElMustWait THEN loading ELSE TRUE
           /\ nilSeen' = IF ElFastPath THEN TRUE ELSE nilSeen
           /\ elInv' = IF ElInvoked(f2) THEN elInv + 1 ELSE elInv
           /\ firstElProc' = IF ElInvoked(f2) /\ elInv = 0 THEN p ELSE firstElProc
           /\ stateMu' = ElUnlocked(p, f2)
    /\ UNCHANGED <<extVars, cfgVars, ready, gateVars, loaded, lastError, rMu, rReaders,
                   callsLeft, loadOk, firstEl, resets, reqVars>>

\* LoadFunc, invoked by loadWithRetry, returns nil or an error.
LwrLoadReturn(p) ==
    /\ g[p].pc = "lwr_load"
    /\ \E ok \in BOOLEAN :
         LET f == g[p]
             f2 == IF ok THEN lwrSucceeded(f)
                   ELSE lwrFailed(f, LoadError(p, f.attempt))
         IN  /\ g' = [g EXCEPT ![p] = f2]
             /\ loadOk' = (loadOk \/ ok)
             /\ firstEl' = IF firstEl = "none" /\ firstElProc = p
                           THEN (IF ok THEN "ok" ELSE "fail") ELSE firstEl
             /\ elInv' = IF ElInvoked(f2) THEN elInv + 1 ELSE elInv
    /\ UNCHANGED <<extVars, cfgVars, ready, gateVars, guardVars, muVars, callsLeft,
                   firstElProc, resets, nilSeen, reqVars>>

\* loadWithRetry's select between attempts: ctx.Done() is chosen.
LwrWaitCanceled(p) ==
    /\ g[p].pc = "lwr_wait"
    /\ g[p].cancelled
    /\ g' = [g EXCEPT ![p] = lwrCanceled(g[p])]
    /\ UNCHANGED <<extVars, cfgVars, ready, gateVars, guardVars, muVars, callsLeft,
                   histVars, reqVars>>

\* loadWithRetry's select between attempts took the timer's case.  With
\* the context canceled and a RetryInterval that is not positive both
\* cases are ready and the select may take either.
LwrWaitElapsed(p) ==
    /\ g[p].pc = "lwr_wait"
    /\ TimerCase(g[p])
    /\ LET f2 == lwrTop(g[p], g[p].attempt + 1)
       IN  /\ g' = [g EXCEPT ![p] = f2]
           /\ elInv' = IF ElInvoked(f2) THEN elInv + 1 ELSE elInv
    /\ UNCHANGED <<extVars, cfgVars, ready, gateVars, guardVars, muVars, callsLeft,
                   loadOk, firstEl, firstElProc, resets, nilSeen, reqVars>>

\* Mutant of waitForLoadResult: the waiter reports success whatever the
\* loader recorded.
waitForLoadResult_AlwaysNil == Nil

\* waitForLoad's result once it finds loading false: nil if loaded, else
\* the recorded lastError.
waitForLoadResult == IF loaded THEN Nil ELSE lastError

\* Mutant of waitForLoadDone: the canceled waiter returns what the guard
\* has recorded.
waitForLoadDone_ReturnsRecorded(f) == Returned(f, lastError)

\* waitForLoad, lines 103-104: return ctx.Err().
waitForLoadDone(f) == Returned(f, Canceled)

\* waitForLoad's select chose ctx.Done(): return ctx.Err().
WaitForLoadCanceled(p) ==
    /\ g[p].pc = "el_wait"
    /\ g[p].cancelled
    /\ g' = [g EXCEPT ![p] = waitForLoadDone(g[p])]
    /\ UNCHANGED <<extVars, cfgVars, ready, gateVars, guardVars, muVars, callsLeft,
                   histVars, reqVars>>

\* waitForLoad's ticker fired and the poll under state.mu found loading
\* false.  (A poll that finds loading true changes nothing and is no step.)
WaitForLoadTick(p) ==
    /\ g[p].pc = "el_wait"
    /\ stateMu = NoProc
    /\ ~loading
    /\ g' = [g EXCEPT ![p] = Returned(g[p], waitForLoadResult)]
    /\ nilSeen' = (nilSeen \/ waitForLoadResult = Nil)
    /\ UNCHANGED <<extVars, cfgVars, ready, gateVars, guardVars, muVars, callsLeft,
                   loadOk, firstEl, firstElProc, elInv, resets, reqVars>>

\* History: the frames once loader p has finished; the waiters that have
\* heard of no loader yet hear of p's result.
Hearing(p) ==
    [q \in Callers |->
        IF q # p /\ g[q].pc = "el_wait" /\ g[q].heard = NoOutcome
        THEN [g[q] EXCEPT !.heard = g[p].ret]
        ELSE g[q]]

\* EnsureLoaded, lines 83-93: under state.mu clear loading and record the
\* outcome; on success go on to setReady(true) with state.mu still held, on
\* failure unlock and return the error.
EnsureLoadedFinish(p) ==
    /\ g[p].pc = "el_finish"
    /\ stateMu = NoProc
    /\ loading' = FALSE
    /\ IF g[p].ret = Nil
       THEN /\ loaded' = TRUE
            /\ stateMu' = p
            /\ g' = [Hearing(p) EXCEPT ![p].pc = "sr_lock"]
            /\ UNCHANGED lastError
       ELSE /\ lastError' = g[p].ret
            /\ g' = [Hearing(p) EXCEPT ![p] = Returned(g[p], g[p].ret)]
            /\ UNCHANGED <<loaded, stateMu>>
    /\ UNCHANGED <<extVars, cfgVars, ready, gateVars, rMu, rReaders, callsLeft, histVars, reqVars>>

\* ---------------------------------------------------------- setReady
\* What is left of the caller after setReady(true): EnsureLoaded unlocks
\* state.mu and returns nil, Start returns nil.
AfterSetReady(p) ==
    /\ g' = [g EXCEPT ![p] = Returned(g[p], Nil)]
    /\ stateMu' = IF stateMu = p THEN NoProc ELSE stateMu
    /\ nilSeen' = (nilSeen \/ g[p].op = "EnsureLoaded")

\* setReady(true), line 160: r.mu.Lock(), which waits for the writer and
\* the readers of r.mu to be gone.
SetReadyLock(p) ==
    /\ g[p].pc = "sr_lock"
    /\ rMu = NoProc
    /\ rReaders = {}
    /\ rMu' = p
    /\ g' = [g EXCEPT ![p].pc = "sr_ready"]
    /\ UNCHANGED <<extVars, cfgVars, ready, gateVars, guardVars, stateMu, rReaders,
                   callsLeft, histVars, reqVars>>

\* setReady(true), lines 161-162: r.ready = true and r.mu.Unlock().
\* Without a gate that is all of it.
SetReadyFlag(p) ==
    /\ g[p].pc = "sr_ready"
    /\ rMu = p
    /\ ready' = TRUE
    /\ rMu' = NoProc
    /\ IF HasGate
       THEN /\ g' = [g EXCEPT ![p].pc = "sr_gate"]
            /\ UNCHANGED <<stateMu, nilSeen>>
       ELSE AfterSetReady(p)
    /\ UNCHANGED <<extVars, cfgVars, gateVars, guardVars, rReaders, callsLeft, loadOk,
                   firstEl, firstElProc, elInv, resets, reqVars>>

\* Mutant of GateSetReady: the store flips the flag instead of setting it.
GateSetReady_Toggles == ~gateReady

\* ReadyGate.SetReady: ready.Store(true).
GateSetReady == TRUE

\* setReady(true), lines 164-166: r.gate.SetReady().
SetReadyGate(p) ==
    /\ g[p].pc = "sr_gate"
    /\ gateReady' = GateSetReady
    /\ AfterSetReady(p)
    /\ UNCHANGED <<extVars, cfgVars, ready, gateHandler, handlerReadyClosed,
                   gateMu, sh, setHandlerArg, setHandlerPanic, guardVars,
                   rMu, rReaders, callsLeft, loadOk, firstEl, firstElProc, elInv, resets,
                   reqVars>>

\* ---------------------------------------------------- ResetLoadState
\* ResetLoadState, line 153: the call begins with getLambdaState; it is
\* then in front of state.mu.Lock() of line 154.
ResetLoadStateCall(p) ==
    /\ CanCall(p)
    /\ tableMu = NoProc
    /\ lambdaStates' = getLambdaState(lambdaStates, ThisRuntime)
    /\ g' = [g EXCEPT ![p] = [NewFrame("ResetLoadState") EXCEPT !.pc = "rs_lock"]]
    /\ callsLeft' = callsLeft - 1
    /\ UNCHANGED <<tableMu, recs, rts, fl, flLeft, rlVars, cfgVars, ready,
                   gateVars, guardVars, muVars, histVars, reqVars>>

\* Lines 154-158: lock state.mu and under it clear loaded, loading and
\* lastError.
ResetLoadStateEnter(p) ==
    /\ g[p].pc = "rs_lock"
    /\ stateMu = NoProc
    /\ stateMu' = p
    /\ loaded' = FALSE
    /\ loading' = FALSE
    /\ lastError' = Nil
    /\ g' = [q \in Callers |->
               IF q = p
               THEN [g[p] EXCEPT
                         !.pc = "rs_rlock",
                         !.role = IF loaded THEN "loaded" ELSE "none"]
               ELSE [g[q] EXCEPT !.late = FALSE,
                                 !.resetDuring = (@ \/ g[q].pc # "idle")]]
    /\ resets' = TRUE
    /\ nilSeen' = FALSE
    /\ UNCHANGED <<extVars, cfgVars, ready, gateVars, rMu, rReaders, callsLeft, loadOk,
                   firstEl, firstElProc, elInv, reqVars>>

\* Line 160: r.mu.Lock(), with state.mu held.
ResetLoadStateLock(p) ==
    /\ g[p].pc = "rs_rlock"
    /\ rMu = NoProc
    /\ rReaders = {}
    /\ rMu' = p
    /\ g' = [g EXCEPT ![p].pc = "rs_ready"]
    /\ UNCHANGED <<extVars, cfgVars, ready, gateVars, guardVars, stateMu, rReaders,
                   callsLeft, histVars, reqVars>>

\* Lines 161-163: r.ready = false, r.mu.Unlock(), then the deferred unlock
\* of state.mu.  The gate is not touched.
ResetLoadStateReady(p) ==
    /\ g[p].pc = "rs_ready"
    /\ rMu = p
    /\ ready' = FALSE
    /\ rMu' = NoProc
    /\ stateMu' = NoProc
    /\ g' = [g EXCEPT ![p] = Returned(g[p], Nil)]
    /\ UNCHANGED <<extVars, cfgVars, gateVars, guardVars, rReaders, callsLeft, histVars,
                   reqVars>>

\* ----------------------------------------------------------- IsReady
\* IsReady: the call begins in front of r.mu.RLock() of line 153.
IsReadyCall(p) ==
    /\ CanCall(p)
    /\ g' = [g EXCEPT ![p] = [NewFrame("IsReady") EXCEPT !.pc = "ir_lock"]]
    /\ callsLeft' = callsLeft - 1
    /\ UNCHANGED <<extVars, cfgVars, ready, gateVars, guardVars, muVars, histVars,
                   reqVars>>

\* IsReady, line 153: r.mu.RLock(), which waits for the writer of r.mu to
\* be gone.
IsReadyLock(p) ==
    /\ g[p].pc = "ir_lock"
    /\ rMu = NoProc
    /\ rReaders' = rReaders \cup {p}
    /\ g' = [g EXCEPT ![p].pc = "ir_read"]
    /\ UNCHANGED <<extVars, cfgVars, ready, gateVars, guardVars, stateMu, rMu,
                   callsLeft, histVars, reqVars>>

\* IsReady, lines 154-155: return r.ready, the deferred RUnlock.
IsReadyRead(p) ==
    /\ g[p].pc = "ir_read"
    /\ rReaders' = rReaders \ {p}
    /\ g' = [g EXCEPT ![p] = [Returned(g[p], Nil) EXCEPT !.val = ready]]
    /\ UNCHANGED <<extVars, cfgVars, ready, gateVars, guardVars, stateMu, rMu,
                   callsLeft, histVars, reqVars>>

\* ------------------------------------------------- Start and Wait
\* Mutant of StartAfterWait: the error test is missing, setReady(true) is
\* reached whatever Wait returned.
StartAfterWait_NoErrorTest(f, e) == [f EXCEPT !.pc = "sr_lock", !.ret = Nil]

\* Start, lines 227-231, with Wait's result e: return e, or setReady(true).
StartAfterWait(f, e) ==
    IF e # Nil THEN Returned(f, e) ELSE [f EXCEPT !.pc = "sr_lock", !.ret = Nil]

\* configwait.Wait: the loop condition and the wait-before-next-attempt test.
WaitLoopCond(a) == a <= maxRetries

\* Mutant of WaitWaits: Wait also waits after its last attempt.
WaitWaits_AfterLastToo(a) == TRUE

WaitWaits(a) == a < maxRetries

\* The top of Wait's loop with attempt a: invoke load, or leave the loop
\* and return lastErr to Start.
WaitTop(f, a) ==
    IF WaitLoopCond(a)
    THEN [f EXCEPT !.attempt = a, !.pc = "w_load", !.inv = @ + 1]
    ELSE StartAfterWait([f EXCEPT !.attempt = a], f.lastErr)

\* load returned nil: Wait returns nil.
WaitSucceeded(f) == StartAfterWait([f EXCEPT !.okAt = f.attempt], Nil)

\* load returned the error e.
WaitFailed(f, e) ==
    LET f1 == [f EXCEPT !.lastErr = e]
    IN  IF WaitWaits(f.attempt)
        THEN [f1 EXCEPT !.pc = "w_wait"]
        ELSE WaitTop(f1, f.attempt + 1)

\* Wait's select between attempts chose ctx.Done(): return ctx.Err().
WaitCanceled(f) == StartAfterWait(f, Canceled)

\* Start calls Wait, which reaches its loop.
StartEnter(p) ==
    /\ CanCall(p)
    /\ g' = [g EXCEPT ![p] = WaitTop(NewFrame("Start"), 1)]
    /\ callsLeft' = callsLeft - 1
    /\ UNCHANGED <<extVars, cfgVars, ready, gateVars, guardVars, muVars, histVars, reqVars>>

\* LoadFunc, invoked by Wait, returns nil or an error.
WaitLoadReturn(p) ==
    /\ g[p].pc = "w_load"
    /\ \E ok \in BOOLEAN :
         /\ g' = [g EXCEPT ![p] = IF ok THEN WaitSucceeded(g[p])
                                  ELSE WaitFailed(g[p], LoadError(p, g[p].attempt))]
         /\ loadOk' = (loadOk \/ ok)
    /\ UNCHANGED <<extVars, cfgVars, ready, gateVars, guardVars, muVars, callsLeft,
                   firstEl, firstElProc, elInv, resets, nilSeen, reqVars>>

\* Wait's select between attempts: ctx.Done() is chosen.
WaitWaitCanceled(p) ==
    /\ g[p].pc = "w_wait"
    /\ g[p].cancelled
    /\ g' = [g EXCEPT ![p] = WaitCanceled(g[p])]
    /\ UNCHANGED <<extVars, cfgVars, ready, gateVars, guardVars, muVars, callsLeft,
                   histVars, reqVars>>

\* Wait's select between attempts took the timer's case.  With the context
\* canceled and a RetryInterval that is not positive both cases are ready
\* and the select may take either.
WaitWaitElapsed(p) ==
    /\ g[p].pc = "w_wait"
    /\ TimerCase(g[p])
    /\ g' = [g EXCEPT ![p] = WaitTop(g[p], g[p].attempt + 1)]
    /\ UNCHANGED <<extVars, cfgVars, ready, gateVars, guardVars, muVars, callsLeft,
                   histVars, reqVars>>

\* ------------------------------------------------------------ Reload
\* Runtime.Reload: call LoadFunc ...
\* Mutant of ReloadReady: readiness follows the outcome of the reload.
ReloadReady_FollowsOutcome(rdy, ok) == ok

\* Reload (line 173) and doReload (lines 299-303) only call LoadFunc:
\* r.ready is what it was, whatever LoadFunc returned.
ReloadReady(rdy, ok) == rdy

ReloadEnter(p) ==
    /\ CanCall(p)
    /\ g' = [g EXCEPT ![p] = [NewFrame("Reload") EXCEPT !.pc = "rl_load", !.inv = 1]]
    /\ callsLeft' = callsLeft - 1
    /\ UNCHANGED <<extVars, cfgVars, ready, gateVars, guardVars, muVars, histVars, reqVars>>

\* ... and return what it returns.
ReloadReturn(p) ==
    /\ g[p].pc = "rl_load"
    /\ \E ok \in BOOLEAN :
         /\ g' = [g EXCEPT ![p] = Returned([g[p] EXCEPT !.okAt = IF ok THEN 1 ELSE 0],
                                           IF ok THEN Nil ELSE LoadError(p, 1))]
         /\ ready' = ReloadReady(ready, ok)
    /\ UNCHANGED <<extVars, cfgVars, gateVars, guardVars, muVars, callsLeft,
                   histVars, reqVars>>

\* --------------------------------------------------------- ReadyGate
\* strings.HasPrefix.
HasPrefix(str, prefix) ==
    /\ Len(str) >= Len(prefix)
    /\ SubSeq(str, 1, Len(prefix)) = prefix

\* isAllowedPath's loop over allowedPaths from index i on: "/" matches only
\* the path "/", any other entry matches as a prefix.
\* Mutant of isAllowedFrom: "/" is matched as a prefix like any other
\* entry.
isAllowedFrom_RootIsPrefix(path, i) ==
    \E j \in i .. Len(allowedPaths) : HasPrefix(path, allowedPaths[j])

RECURSIVE isAllowedFrom(_, _)
isAllowedFrom(path, i) ==
    IF i > Len(allowedPaths) THEN FALSE
    ELSE IF allowedPaths[i] = <<"/">>
         THEN IF path = <<"/">> THEN TRUE ELSE isAllowedFrom(path, i + 1)
         ELSE IF HasPrefix(path, allowedPaths[i]) THEN TRUE
              ELSE isAllowedFrom(path, i + 1)

\* Mutant of isAllowedPath: no path is let through.
isAllowedPath_Never(path) == FALSE

\* isAllowedPath, lines 166-179: the loop run over the whole list.
isAllowedPath(path) == isAllowedFrom(path, 1)

\* serveUnavailable: 503, Retry-After 5, the JSON body's message.
serveUnavailable(path, message) ==
    [path |-> path, status |-> 503, message |-> message, retryAfter |-> 5,
     handler |-> NoHandler]

\* h.ServeHTTP(w, r): the request is handed to handler h, which answers it.
Forwarded(path, h) ==
    [path |-> path, status |-> 200, message |-> "", retryAfter |-> 0,
     handler |-> h]

\* Mutant of ServeWithHandler: the handler is not looked at, the request is
\* always answered "service starting up".
ServeWithHandler_NeverForwards(path, h) ==
    serveUnavailable(path, "service starting up")

\* ServeHTTP's two uses of getHandler: forward, or "service starting up".
ServeWithHandler(path, h) ==
    IF h # NoHandler THEN Forwarded(path, h)
    ELSE serveUnavailable(path, "service starting up")

\* Mutant of ServeNotReady: a path that is not allowed is handed to the
\* handler although the gate is not ready.
ServeNotReady_Forwards(path) == ServeWithHandler(path, gateHandler)

\* ServeHTTP, line 152: the not-ready answer for a path that is not allowed.
ServeNotReady(path) ==
    serveUnavailable(path, "service not ready, configuration loading")

\* A request for `path` reaches the server, whose handler is the gate.
RequestArrives(path) ==
    /\ HasGate
    /\ dpc = "idle"
    /\ dpc' = "serving"
    /\ dpath' = path
    /\ resp' = NoResp
    /\ UNCHANGED <<extVars, cfgVars, ready, gateVars, guardVars, muVars, g, callsLeft,
                   histVars, served>>

\* ServeHTTP, lines 142-155: an allowed path goes to the handler loaded
\* now; any other path is refused while ready.Load() is false.
ServeHTTPEnter ==
    /\ dpc = "serving"
    /\ IF isAllowedPath(dpath)
       THEN /\ resp' = ServeWithHandler(dpath, gateHandler)
            /\ dpc' = "idle"
       ELSE IF ~gateReady
       THEN /\ resp' = ServeNotReady(dpath)
            /\ dpc' = "idle"
       ELSE /\ resp' = resp
            /\ dpc' = "d_handler"
    /\ UNCHANGED <<extVars, cfgVars, ready, gateVars, guardVars, muVars, g, callsLeft,
                   histVars, dpath, served>>

\* ServeHTTP, lines 157-162: ready was true; load the handler and forward.
ServeHTTPReady ==
    /\ dpc = "d_handler"
    /\ resp' = ServeWithHandler(dpath, gateHandler)
    /\ dpc' = "idle"
    /\ UNCHANGED <<extVars, cfgVars, ready, gateVars, guardVars, muVars, g, callsLeft,
                   histVars, dpath, served>>

\* The handlers of a second concrete type: Handlers stand for values of
\* one type (say *http.ServeMux), FuncHandlers for values of another (say
\* http.HandlerFunc).
FuncHandlers == { 0 - h : h \in Handlers }
AllHandlers == Handlers \cup FuncHandlers
HandlerType(h) == IF h > 0 THEN "*http.ServeMux" ELSE "http.HandlerFunc"

\* atomic.Value.Store(h) panics on nil and on a value whose concrete type
\* differs from the type of the value stored first.
StorePanics(old, h) ==
    \/ h = NoHandler
    \/ old # NoHandler /\ HandlerType(old) # HandlerType(h)

\* ReadyGate.SetHandler, line 125: rg.handler.Store(h).  A panic there
\* leaves the handler as it was and ends the call; otherwise the handler
\* is h, handlerReady is as it was, and the call is in front of
\* rg.mu.Lock().  History: setHandlerArg, setHandlerPanic.
GateSetHandler(s, h, name) ==
    /\ sh[s].pc = "idle"
    /\ setHandlerArg' = h
    /\ IF StorePanics(gateHandler, h)
       THEN /\ setHandlerPanic' = TRUE
            /\ UNCHANGED <<gateHandler, sh>>
       ELSE /\ gateHandler' = h
            /\ sh' = [sh EXCEPT ![s] =
                        [pc |-> "sh_lock", op |-> name,
                         h |-> IF name = "Handler" THEN h ELSE NoHandler]]
            /\ UNCHANGED setHandlerPanic
    /\ UNCHANGED <<gateReady, handlerReadyClosed, gateMu>>

\* The program calls gate.SetHandler(h).
SetHandler(s, h) ==
    /\ HasGate
    /\ GateSetHandler(s, h, "SetHandler")
    /\ UNCHANGED <<extVars, cfgVars, ready, guardVars, muVars, g, callsLeft,
                   histVars, reqVars>>

\* Mutant of HandlerResult: inner is returned whether or not there is a
\* gate.
HandlerResult_AlwaysInner(h) == Inner(h)

\* Runtime.Handler's return value: inner without a gate, else the gate.
HandlerResult(h) == IF HasGate THEN TheGate ELSE Inner(h)

\* Runtime.Handler(inner), lines 257-262: without a gate return inner, and
\* the program serves with it (a server's handler is swapped between
\* requests); with one, enter gate.SetHandler(inner).
Handler(s, h) ==
    /\ IF HasGate
       THEN /\ GateSetHandler(s, h, "Handler")
            /\ UNCHANGED served
       ELSE /\ sh[s].pc = "idle"
            /\ dpc = "idle"
            /\ served' = HandlerResult(h)
            /\ UNCHANGED gateVars
    /\ UNCHANGED <<extVars, cfgVars, ready, guardVars, muVars, g, callsLeft,
                   histVars, dpc, dpath, resp>>

\* ReadyGate.SetHandler, line 126: rg.mu.Lock().
SetHandlerLock(s) ==
    /\ sh[s].pc = "sh_lock"
    /\ gateMu = NoProc
    /\ gateMu' = s
    /\ sh' = [sh EXCEPT ![s].pc = "sh_close"]
    /\ UNCHANGED <<extVars, cfgVars, ready, gateReady, gateHandler,
                   handlerReadyClosed, setHandlerArg, setHandlerPanic,
                   guardVars, muVars, g, callsLeft, histVars, reqVars>>

\* ReadyGate.SetHandler, lines 127-133: close handlerReady unless it is
\* closed, unlock and return; Runtime.Handler, line 263, then returns the
\* gate, with which the program serves.
SetHandlerClose(s) ==
    /\ sh[s].pc = "sh_close"
    /\ handlerReadyClosed' = TRUE
    /\ gateMu' = NoProc
    /\ sh' = [sh EXCEPT ![s] = SetterFrame0]
    /\ served' = IF sh[s].op = "Handler" THEN HandlerResult(sh[s].h) ELSE served
    /\ UNCHANGED <<extVars, cfgVars, ready, gateReady, gateHandler,
                   setHandlerArg, setHandlerPanic, guardVars, muVars, g,
                   callsLeft, histVars, dpc, dpath, resp>>

\* A request for `path` reaches the server, which serves with what
\* Runtime.Handler returned.
RequestServed(path) ==
    /\ served # NotServed
    /\ dpc = "idle"
    /\ dpc' = "serving"
    /\ dpath' = path
    /\ resp' = NoResp
    /\ UNCHANGED <<extVars, cfgVars, ready, gateVars, guardVars, muVars, g, callsLeft,
                   histVars, served>>

\* The server's handler is the inner handler: it answers the request.
ServeInner ==
    /\ dpc = "serving"
    /\ served[1] = "inner"
    /\ resp' = Forwarded(dpath, served[2])
    /\ dpc' = "idle"
    /\ UNCHANGED <<extVars, cfgVars, ready, gateVars, guardVars, muVars, g, callsLeft,
                   histVars, dpath, served>>

\* The server's handler is the gate: ReadyGate.ServeHTTP.
ServeGate ==
    /\ served = TheGate
    /\ ServeHTTPEnter \/ ServeHTTPReady

\* ----------------------------------------------------- reload signal
\* Runtime.reloadCh is made with room for one token; so is sigCh.
reloadChCap == 1
sigChCap == 1

\* Mutants of TrySend: the value is queued even when there is no room; the
\* value is never put in.
TrySend_Unbounded(ch, cap) == ch + 1
TrySend_Drops(ch, cap) == ch

\* A send that does not block (select with default, or the runtime's
\* delivery of a signal): the value goes in if there is room, else nothing.
TrySend(ch, cap) == IF ch < cap THEN ch + 1 ELSE ch

\* Mutant of Receive: the value stays in the channel.
Receive_Leaves(ch) == ch

\* A receive from a buffered channel that holds a value.
Receive(ch) == ch - 1

\* The function returned by ReloadCallback is called.
Trigger ==
    /\ trigsLeft > 0
    /\ trigsLeft' = trigsLeft - 1
    /\ reloadCh' = TrySend(reloadCh, reloadChCap)
    /\ burst' = burst + 1
    /\ owed' = TRUE
    /\ UNCHANGED <<extVars, rtVars, asyncVars, sigCh, sigSub, lsnVars, sigsLeft>>

\* The process receives SIGHUP while sigCh is subscribed: package signal
\* hands it to sigCh without blocking.
Sighup ==
    /\ sigsLeft > 0
    /\ sigSub
    /\ sigsLeft' = sigsLeft - 1
    /\ sigCh' = TrySend(sigCh, sigChCap)
    /\ UNCHANGED <<extVars, rtVars, asyncVars, reloadCh, sigSub, lsnVars, trigsLeft, burst, owed>>

\* ListenForReloads, lines 272-278: make done and sigCh, signal.Notify,
\* start the goroutine, return done.
ListenForReloads ==
    /\ lpc = "none"
    /\ lpc' = "select"
    /\ sigSub' = TRUE
    /\ UNCHANGED <<extVars, rtVars, asyncVars, reloadCh, sigCh, lcancelled, doneClosed, lactive, lres, trigVars>>

\* The owner of the listener's context cancels it.
CancelListener ==
    /\ ~lcancelled
    /\ lcancelled' = TRUE
    /\ UNCHANGED <<extVars, rtVars, asyncVars, chVars, lpc, doneClosed, lactive, lres, trigVars>>

\* Mutant of ctxDone: the case is ready although the context is live.
ctxDone_Always == TRUE

\* The select's case <-ctx.Done() can be chosen.
ctxDone == lcancelled

\* Mutant of ReloadAdmitted: a reload is held back while the lazy-load
\* guard is loading.
ReloadAdmitted_NotWhileLoading == ~loading

\* doReload, lines 298-299, calls LoadFunc at once: it takes no lock and
\* reads nothing of the lazy-load guard.
ReloadAdmitted == TRUE

\* Mutant of DoReloadCall: doReload is started with `go` and the loop
\* selects again at once.
DoReloadCall_Spawned == "select"

\* r.doReload(ctx), lines 287 and 289, is an ordinary call: the loop is in
\* it until it returns.
DoReloadCall == "load"

\* The listener's select chooses <-r.reloadCh: doReload invokes LoadFunc.
ListenTakeToken ==
    /\ lpc = "select"
    /\ ReloadAdmitted
    /\ reloadCh > 0
    /\ reloadCh' = Receive(reloadCh)
    /\ lpc' = DoReloadCall
    /\ lactive' = lactive + 1
    /\ burst' = 0
    /\ owed' = FALSE
    /\ UNCHANGED <<extVars, rtVars, asyncVars, sigCh, sigSub, lcancelled, doneClosed, lres,
                   trigsLeft, sigsLeft>>

\* The listener's select chooses <-sigCh: doReload invokes LoadFunc.
ListenTakeSignal ==
    /\ lpc = "select"
    /\ ReloadAdmitted
    /\ sigCh > 0
    /\ sigCh' = Receive(sigCh)
    /\ lpc' = DoReloadCall
    /\ lactive' = lactive + 1
    /\ owed' = FALSE
    /\ UNCHANGED <<extVars, rtVars, asyncVars, reloadCh, sigSub, lcancelled, doneClosed, lres,
                   trigsLeft, sigsLeft, burst>>

\* Mutant of AfterReload: a failed reload ends the listener.
AfterReload_StopsOnError(res) == IF res = "err" THEN "closing" ELSE "select"

\* Where the listener goes when doReload's LoadFunc returned res: doReload
\* drops the error and the loop selects again.
AfterReload(res) == "select"

\* LoadFunc, invoked by doReload, returns nil or an error.
ListenLoadReturn ==
    /\ lactive > 0
    /\ lactive' = lactive - 1
    /\ \E res \in {"ok", "err"} :
         /\ lres' = res
         /\ lpc' = IF lpc = "load" THEN AfterReload(res) ELSE lpc
         /\ ready' = ReloadReady(ready, res = "ok")
    /\ UNCHANGED <<extVars, cfgVars, gateVars, guardVars, muVars, g, callsLeft,
                   histVars, reqVars, asyncVars, chVars, lcancelled, doneClosed,
                   trigVars>>

\* The listener's select chooses <-ctx.Done(): return, and the deferred
\* signal.Stop(sigCh) runs.
ListenDone ==
    /\ lpc = "select"
    /\ ctxDone
    /\ lpc' = "closing"
    /\ sigSub' = FALSE
    /\ UNCHANGED <<extVars, rtVars, asyncVars, reloadCh, sigCh, lcancelled, doneClosed, lactive, lres, trigVars>>

\* The deferred close(done) runs and the goroutine ends.
ListenClose ==
    /\ lpc = "closing"
    /\ doneClosed' = doneClosed + 1
    /\ lpc' = "exited"
    /\ UNCHANGED <<extVars, rtVars, asyncVars, chVars, lcancelled, lres, lactive, trigVars>>

\* The steps of the listener goroutine other than LoadFunc's return.
ListenerStep ==
    \/ ListenTakeToken
    \/ ListenTakeSignal
    \/ ListenDone
    \/ ListenClose

\* The reload signal: triggers, SIGHUPs, one listener and its context.
NextSignal ==
    \/ Trigger
    \/ Sighup
    \/ ListenForReloads
    \/ CancelListener
    \/ ListenerStep
    \/ ListenLoadReturn

\* A Runtime on which nothing but reload signalling goes on.
InitSignal == InitWith({"HTTP", "Lambda"}, {}, 0)

SpecSignal == InitSignal /\ [][NextSignal]_vars

\* The listener goroutine is scheduled, and LoadFunc returns.
SpecSignalFair ==
    SpecSignal /\ WF_vars(ListenerStep) /\ WF_vars(ListenLoadReturn)

\* -------------------------------------------------------- StartAsync
\* Mutant of errChCap: errCh is made unbuffered.
errChCap_Unbuffered == 1 - 1

\* errCh := make(chan error, 1).
errChCap == 1

\* StartAsync, lines 243-248: make errCh, spawn the goroutine p and return
\* errCh to the caller.  Nothing of Start has run when the caller has its
\* channel.
StartAsync(p) ==
    /\ apc = "none"
    /\ CanCall(p)
    /\ g' = [g EXCEPT ![p] = [NewFrame("Start") EXCEPT !.pc = "go"]]
    /\ callsLeft' = callsLeft - 1
    /\ errCh' = <<>>
    /\ abg' = p
    /\ apc' = "running"
    /\ UNCHANGED <<extVars, cfgVars, ready, gateVars, guardVars, muVars, histVars,
                   reqVars, sigVars, errChClosed, arecv>>

\* The spawned goroutine begins r.Start(ctx): Wait reaches its loop.
AsyncRun ==
    /\ apc = "running"
    /\ g[abg].pc = "go"
    /\ g' = [g EXCEPT ![abg] = WaitTop(NewFrame("Start"), 1)]
    /\ UNCHANGED <<extVars, cfgVars, ready, gateVars, guardVars, muVars, callsLeft,
                   histVars, reqVars, sigVars, asyncVars>>

\* errCh <- r.Start(ctx), line 246: Start has returned and its result is
\* sent; the send needs room in the buffer.
AsyncSend ==
    /\ apc = "running"
    /\ g[abg].pc = "idle"
    /\ Len(errCh) < errChCap
    /\ errCh' = Append(errCh, g[abg].ret)
    /\ apc' = "close"
    /\ UNCHANGED <<extVars, rtVars, sigVars, errChClosed, abg, arecv>>

\* The deferred close(errCh), line 245, as the goroutine ends.
AsyncClose ==
    /\ apc = "close"
    /\ errChClosed' = TRUE
    /\ apc' = "done"
    /\ UNCHANGED <<extVars, rtVars, sigVars, errCh, abg, arecv>>

\* The holder of the channel receives the value buffered in it.
AsyncRecv ==
    /\ Len(errCh) > 0
    /\ arecv' = Append(arecv, Head(errCh))
    /\ errCh' = Tail(errCh)
    /\ UNCHANGED <<extVars, rtVars, sigVars, errChClosed, apc, abg>>

\* The steps of the calls on the Runtime that the spawned goroutine makes
\* inside Start.
AsyncStartStep ==
    /\ abg # NoProc
    /\ \/ WaitLoadReturn(abg)
       \/ WaitWaitCanceled(abg)
       \/ WaitWaitElapsed(abg)
       \/ SetReadyLock(abg)
       \/ SetReadyFlag(abg)
       \/ SetReadyGate(abg)
    /\ UNCHANGED <<sigVars, asyncVars>>

\* The steps of the spawned goroutine.
AsyncStep == AsyncRun \/ AsyncStartStep \/ AsyncSend \/ AsyncClose

\* Start called directly by the other goroutines while the spawned one
\* runs, and the cancellation of a context.
AsyncOthers ==
    /\ \E p \in Callers :
         \/ p # abg /\ StartEnter(p)
         \/ p # abg /\ WaitLoadReturn(p)
         \/ p # abg /\ WaitWaitCanceled(p)
         \/ p # abg /\ WaitWaitElapsed(p)
         \/ p # abg /\ SetReadyLock(p)
         \/ p # abg /\ SetReadyFlag(p)
         \/ p # abg /\ SetReadyGate(p)
         \/ Cancel(p)
    /\ UNCHANGED <<sigVars, asyncVars>>

NextAsync ==
    \/ \E p \in Callers : StartAsync(p)
    \/ AsyncStep
    \/ AsyncRecv
    \/ AsyncOthers

InitAsync == InitWith({"HTTP", "Lambda"}, Procs, MaxCalls)

\* An HTTP or Lambda program that starts its Runtime with StartAsync.
SpecAsync == InitAsync /\ [][NextAsync]_vars

\* The scheduler runs the spawned goroutine and LoadFunc returns; nothing
\* is assumed of the receiver.
\* A goroutine that holds r.mu inside setReady stores the flag and unlocks.
SetReadyHolderStep ==
    /\ \E p \in Callers : p # abg /\ SetReadyFlag(p)
    /\ UNCHANGED <<sigVars, asyncVars>>

\* The scheduler runs the spawned goroutine, and a goroutine holding r.mu
\* runs on to its Unlock, so the spawned goroutine is not kept waiting for
\* r.mu forever.
SpecAsyncFair == SpecAsync /\ WF_vars(AsyncStep) /\ WF_vars(SetReadyHolderStep)

\* ------------------------------------------- the two retry loops, run
\* The LoadFunc outcomes given to a run: TRUE is nil, FALSE an error; a run
\* that needs more outcomes than it was given gets errors.
OutcomeSeqs == [1 .. MaxOutcomes -> BOOLEAN]

\* The attempts from which on the context is canceled; MaxOutcomes + 1
\* stands for a context that stays live.
CancelPoints == 1 .. (MaxOutcomes + 1)

\* configwait.Wait run to its return from frame f: LoadFunc returns as
\* `outs` says, and the select after attempt a takes the timer's case
\* while a < c and ctx.Done() at a = c.
RECURSIVE RunWait(_, _, _)
RunWait(f, outs, c) ==
    IF f.pc = "w_load"
    THEN IF outs # <<>> /\ Head(outs)
         THEN WaitSucceeded(f)
         ELSE RunWait(WaitFailed(f, LoadError(NoProc, f.attempt)),
                      IF outs = <<>> THEN outs ELSE Tail(outs), c)
    ELSE IF f.pc = "w_wait"
    THEN IF f.attempt >= c THEN WaitCanceled(f)
         ELSE RunWait(WaitTop(f, f.attempt + 1), outs, c)
    ELSE f

\* Runtime.loadWithRetry run to its return, in the same way.
RECURSIVE RunLoadWithRetry(_, _, _)
RunLoadWithRetry(f, outs, c) ==
    IF f.pc = "lwr_load"
    THEN IF outs # <<>> /\ Head(outs)
         THEN lwrSucceeded(f)
         ELSE RunLoadWithRetry(lwrFailed(f, LoadError(NoProc, f.attempt)),
                               IF outs = <<>> THEN outs ELSE Tail(outs), c)
    ELSE IF f.pc = "lwr_wait"
    THEN IF f.attempt >= c THEN lwrCanceled(f)
         ELSE RunLoadWithRetry(lwrTop(f, f.attempt + 1), outs, c)
    ELSE f

\* What a run did: the LoadFunc invocations it made and what it returned.
RetryResult(f) == <<f.inv, f.ret>>

WaitResult(outs, c) ==
    RetryResult(RunWait(WaitTop(NewFrame("Start"), 1), outs, c))

LoadWithRetryResult(outs, c) ==
    RetryResult(RunLoadWithRetry(lwrTop(NewFrame("EnsureLoaded"), 1), outs, c))

\* --------------------------------------------------------------- Spec
\* The calls goroutines make on the Runtime.
NextCalls ==
    \E p \in Callers :
         \/ EnsureLoadedCall(p)
         \/ EnsureLoadedEnter(p)
         \/ LwrLoadReturn(p)
         \/ LwrWaitCanceled(p)
         \/ LwrWaitElapsed(p)
         \/ WaitForLoadCanceled(p)
         \/ WaitForLoadTick(p)
         \/ EnsureLoadedFinish(p)
         \/ SetReadyLock(p)
         \/ SetReadyFlag(p)
         \/ SetReadyGate(p)
         \/ ResetLoadStateCall(p)
         \/ ResetLoadStateEnter(p)
         \/ ResetLoadStateLock(p)
         \/ ResetLoadStateReady(p)
         \/ StartEnter(p)
         \/ WaitLoadReturn(p)
         \/ WaitWaitCanceled(p)
         \/ WaitWaitElapsed(p)
         \/ Cancel(p)

\* Direct reloads through Runtime.Reload.
NextReload ==
    \E p \in Callers :
         \/ ReloadEnter(p)
         \/ ReloadReturn(p)

\* The requests served by the gate and the handler swaps.
NextGate ==
    \/ \E path \in Paths : RequestArrives(path)
    \/ ServeHTTPEnter
    \/ ServeHTTPReady
    \/ \E s \in Setters, h \in Handlers : SetHandler(s, h)
    \/ \E s \in Setters : SetHandlerLock(s)
    \/ \E s \in Setters : SetHandlerClose(s)

Next == NextCalls /\ UNCHANGED <<sigVars, asyncVars>>

\* Goroutines calling Start, EnsureLoaded and ResetLoadState.
Spec == Init /\ [][Next]_vars

\* The lazy-load guard: EnsureLoaded and ResetLoadState in the Lambda
\* environment, where there is no gate.
NextLambda ==
    \E p \in Callers :
        \/ EnsureLoadedCall(p)
        \/ EnsureLoadedEnter(p)
        \/ LwrLoadReturn(p)
        \/ LwrWaitCanceled(p)
        \/ LwrWaitElapsed(p)
        \/ WaitForLoadCanceled(p)
        \/ WaitForLoadTick(p)
        \/ EnsureLoadedFinish(p)
        \/ SetReadyLock(p)
        \/ SetReadyFlag(p)
        \/ ResetLoadStateCall(p)
        \/ ResetLoadStateEnter(p)
        \/ ResetLoadStateLock(p)
        \/ ResetLoadStateReady(p)
        \/ Cancel(p)

SpecLambda == InitLambda /\ [][NextLambda /\ UNCHANGED <<sigVars, asyncVars>>]_vars

\* Three goroutines making four calls between them on the lazy-load guard
\* of a Lambda Runtime with MaxRetries 1 and contexts that stay live.
InitIdem ==
    /\ InitCore(AllowedPathLists, {1}, RetryIntervalInputs, {"Lambda"},
                LambdaProcs, IdemCalls)
    /\ FleetOff
    /\ ReloaderOff

NextIdem ==
    \E p \in Callers :
        \/ EnsureLoadedCall(p)
        \/ EnsureLoadedEnter(p)
        \/ LwrLoadReturn(p)
        \/ WaitForLoadTick(p)
        \/ EnsureLoadedFinish(p)
        \/ SetReadyLock(p)
        \/ SetReadyFlag(p)
        \/ ResetLoadStateCall(p)
        \/ ResetLoadStateEnter(p)
        \/ ResetLoadStateLock(p)
        \/ ResetLoadStateReady(p)

SpecIdem == InitIdem /\ [][NextIdem /\ UNCHANGED <<sigVars, asyncVars>>]_vars

\* IsReady calls.
NextIsReady ==
    \E p \in Callers :
        \/ IsReadyCall(p)
        \/ IsReadyLock(p)
        \/ IsReadyRead(p)

\* Goroutines calling Start, EnsureLoaded, ResetLoadState and IsReady.
SpecLocks ==
    Init /\ [][(NextCalls \/ NextIsReady) /\ UNCHANGED <<sigVars, asyncVars>>]_vars

\* A step of goroutine p that acquires state.mu or r.mu or runs inside a
\* section guarded by one of them.  No LoadFunc return, no timer and no
\* cancellation is among them.
LockStep(p) ==
    /\ \/ EnsureLoadedEnter(p)
       \/ EnsureLoadedFinish(p)
       \/ SetReadyLock(p)
       \/ SetReadyFlag(p)
       \/ SetReadyGate(p)
       \/ ResetLoadStateEnter(p)
       \/ ResetLoadStateLock(p)
       \/ ResetLoadStateReady(p)
       \/ IsReadyLock(p)
       \/ IsReadyRead(p)
    /\ UNCHANGED <<sigVars, asyncVars>>

\* The scheduler runs a goroutine that is runnable, and a goroutine blocked
\* on a mutex that stays free is woken.  Nothing is assumed of LoadFunc:
\* an invocation may never return.
SpecLocksFair == SpecLocks /\ \A p \in Procs : WF_vars(LockStep(p))

\* A waiter blocked in waitForLoad's select whose ctx.Done() is ready is
\* run by the scheduler.  Nothing is assumed of the loader or of LoadFunc.
WaiterCanceledStep ==
    /\ \E p \in Callers : WaitForLoadCanceled(p)
    /\ UNCHANGED <<sigVars, asyncVars>>

\* Two goroutines sharing the lazy-load guard of a Lambda Runtime.
InitLazy == InitWith({"Lambda"}, Procs, MaxCalls)

SpecLazy == InitLazy /\ [][NextLambda /\ UNCHANGED <<sigVars, asyncVars>>]_vars

SpecLazyWaiters == SpecLazy /\ WF_vars(WaiterCanceledStep)

NextServer ==
    (NextCalls \/ NextReload \/ NextGate) /\ UNCHANGED <<sigVars, asyncVars>>

\* The same calls on the Runtime of an HTTP server that serves requests.
SpecGate == InitGate /\ [][NextServer]_vars

\* The steps of Start calls.
NextStart ==
    \E p \in Callers :
        \/ StartEnter(p)
        \/ WaitLoadReturn(p)
        \/ WaitWaitCanceled(p)
        \/ WaitWaitElapsed(p)
        \/ SetReadyLock(p)
        \/ SetReadyFlag(p)
        \/ SetReadyGate(p)
        \/ Cancel(p)

\* The steps of EnsureLoaded calls.
NextEnsureLoaded ==
    \E p \in Callers :
        \/ EnsureLoadedCall(p)
        \/ EnsureLoadedEnter(p)
        \/ LwrLoadReturn(p)
        \/ LwrWaitCanceled(p)
        \/ LwrWaitElapsed(p)
        \/ WaitForLoadCanceled(p)
        \/ WaitForLoadTick(p)
        \/ EnsureLoadedFinish(p)
        \/ SetReadyLock(p)
        \/ SetReadyFlag(p)
        \/ SetReadyGate(p)
        \/ Cancel(p)

\* A program that wraps its handler with Runtime.Handler and serves
\* requests with the result, in either environment.
NextHandler ==
    /\ \/ NextStart
       \/ \E s \in Setters, h \in Handlers : Handler(s, h)
       \/ \E s \in Setters : SetHandlerLock(s)
       \/ \E s \in Setters : SetHandlerClose(s)
       \/ \E path \in Paths : RequestServed(path)
       \/ ServeInner
       \/ ServeGate
    /\ UNCHANGED <<sigVars, asyncVars>>

InitHandler == InitWith({"HTTP", "Lambda"}, GateProcs, GateCalls)

SpecHandler == InitHandler /\ [][NextHandler]_vars

\* Every Config.MaxRetries NewRuntime may be given: negative, zero (the
\* environment's default is taken), positive.
AllMaxRetriesInputs == -1 .. MaxCfgRetries

InitConfig == InitFrom(AllMaxRetriesInputs, {"HTTP", "Lambda"}, GateProcs, GateCalls)

\* One goroutine using a Runtime built from any Config.
SpecConfig == InitConfig /\ [][Next]_vars

\* Goroutines that also reload through Runtime.Reload.
SpecReload ==
    Init /\ [][(NextCalls \/ NextReload) /\ UNCHANGED <<sigVars, asyncVars>>]_vars

\* A program that loads with Start or EnsureLoaded while its reload
\* listener runs.
InitRace == InitWith({"HTTP", "Lambda"}, GateProcs, RaceCalls)

\* The triggers, the signals and the listener, its context staying live.
NextListen ==
    \/ Trigger
    \/ Sighup
    \/ ListenForReloads
    \/ ListenTakeToken
    \/ ListenTakeSignal
    \/ ListenLoadReturn

SpecRace ==
    InitRace /\ [][ \/ (NextStart \/ NextEnsureLoaded)
                         /\ UNCHANGED <<sigVars, asyncVars>>
                    \/ NextListen ]_vars

\* Every string of at most MaxPathLen characters over "/" and "a", the empty
\* string included, and every list of at most MaxListLen of them.
PathChars == {"/", "a"}
AllPaths == UNION { [1 .. k -> PathChars] : k \in 0 .. MaxPathLen }
AllAllowedLists == UNION { [1 .. k -> AllPaths] : k \in 0 .. MaxListLen }

\* A gate built with any allowed list, asked for any path, while the
\* handler is set or not and the configuration is never loaded.
InitAllow == InitGen(AllAllowedLists, {1}, {"HTTP"}, GateProcs, GateCalls)

NextAllow ==
    /\ \/ \E path \in AllPaths : RequestArrives(path)
       \/ ServeHTTPEnter
       \/ ServeHTTPReady
       \/ \E s \in Setters, h \in Handlers : SetHandler(s, h)
       \/ \E s \in Setters : SetHandlerLock(s)
       \/ \E s \in Setters : SetHandlerClose(s)
    /\ UNCHANGED <<sigVars, asyncVars>>

SpecAllow == InitAllow /\ [][NextAllow]_vars

\* A gate whose handler is replaced, directly or through Runtime.Handler,
\* by handlers of either concrete type while requests are served and Start
\* runs.
NextSwap ==
    /\ \/ \E path \in Paths : RequestArrives(path)
       \/ ServeHTTPEnter
       \/ ServeHTTPReady
       \/ \E s \in Setters, h \in AllHandlers : SetHandler(s, h)
       \/ \E s \in Setters, h \in AllHandlers : Handler(s, h)
       \/ \E s \in Setters : SetHandlerLock(s)
       \/ \E s \in Setters : SetHandlerClose(s)
       \/ NextStart
    /\ UNCHANGED <<sigVars, asyncVars>>

SpecSwap == InitGate /\ [][NextSwap]_vars

\* ------------------------------------------------------------------------
\* Several Runtimes in one process: the lambdaStates table, one lambdaState
\* record per Runtime, and the three mutexes.

\* The three kinds of mutex and the order the code takes them in.
TableLock == <<"table", "all">>
StateLock(i) == <<"state", i>>
RuntimeLock(r) == <<"runtime", r>>
LockRank(l) == CASE l[1] = "table" -> 1 [] l[1] = "state" -> 2 [] OTHER -> 3

\* Mutex.Lock can proceed; for r.mu (an RWMutex) Lock needs no writer and
\* no reader.
CanLock(l) ==
    CASE l[1] = "table" -> tableMu = NoProc
      [] l[1] = "state" -> recs[l[2]].mu = NoProc
      [] OTHER -> rts[l[2]].w = NoProc /\ rts[l[2]].readers = {}

\* RWMutex.RLock can proceed: no writer holds r.mu.
CanRLock(r) == rts[r].w = NoProc

\* The locks goroutine p holds.
HeldLocks(p) ==
    (IF tableMu = p THEN {TableLock} ELSE {})
    \cup { StateLock(i) : i \in { j \in Records : recs[j].mu = p } }
    \cup { RuntimeLock(r) : r \in { x \in Runtimes :
                                      rts[x].w = p \/ p \in rts[x].readers } }

\* Mutant of ResetLocks: r.mu first, then state.mu.
ResetLocks_RuntimeFirst(f) == <<RuntimeLock(f.rt), StateLock(f.state)>>

\* ResetLoadState, lines 154-160: state.mu.Lock(), then r.mu.Lock() while
\* state.mu is held.
ResetLocks(f) == <<StateLock(f.state), RuntimeLock(f.rt)>>

\* The lock the call of frame f acquires next, if it is at an acquisition.
WantedLock(f) ==
    CASE f.pc = "gl_lock" -> {TableLock}
      [] f.pc \in {"el_lock", "el_relock", "wf_lock"} -> {StateLock(f.state)}
      [] f.pc \in {"sr_lock", "ir_lock"} -> {RuntimeLock(f.rt)}
      [] f.pc = "rs_lock1" -> {ResetLocks(f)[1]}
      [] f.pc = "rs_lock2" -> {ResetLocks(f)[2]}
      [] OTHER -> {}

\* The call of frame f cannot take its next step now.
FleetBlocked(f) ==
    \E l \in WantedLock(f) :
        IF f.pc = "ir_lock" THEN ~CanRLock(f.rt) ELSE ~CanLock(l)

Acquire(p, l) ==
    /\ CanLock(l)
    /\ CASE l[1] = "table" -> tableMu' = p /\ UNCHANGED <<recs, rts>>
         [] l[1] = "state" ->
              /\ recs' = [recs EXCEPT ![l[2]].mu = p]
              /\ UNCHANGED <<tableMu, rts>>
         [] OTHER ->
              /\ rts' = [rts EXCEPT ![l[2]].w = p]
              /\ UNCHANGED <<tableMu, recs>>

\* The call returns e; nothing else of its frame outlives it.
FleetReturned(f, e) == [FleetFrame0 EXCEPT !.err = e]

\* What loadWithRetry and configwait.Wait can return.
FleetOutcomes(p) == {Nil, LoadError(p, 1), Canceled}

\* A goroutine calls one of the five operations on one of the Runtimes.
FleetCall(p, name, r) ==
    /\ fl[p].pc = "idle"
    /\ flLeft > 0
    /\ flLeft' = flLeft - 1
    /\ fl' = [fl EXCEPT ![p] =
                [FleetFrame0 EXCEPT
                   !.op = name, !.rt = r,
                   !.pc = CASE name \in {"EnsureLoaded", "ResetLoadState"} -> "gl_lock"
                            [] name \in {"IsReady", "HealthHandler"} -> "ir_lock"
                            [] OTHER -> "st_wait"]]
    /\ UNCHANGED <<tableMu, lambdaStates, recs, rts>>

\* getLambdaState, line 30: lambdaStates.mu.Lock().
GetStateLock(p) ==
    /\ fl[p].pc = "gl_lock"
    /\ Acquire(p, TableLock)
    /\ fl' = [fl EXCEPT ![p].pc = "gl_body"]
    /\ UNCHANGED <<lambdaStates, flLeft>>

\* getLambdaState, lines 33-38 and the deferred Unlock: return the record
\* of this Runtime, allocating and storing it when the table has none.
GetStateBody(p) ==
    /\ fl[p].pc = "gl_body"
    /\ LET f == fl[p]
           found == LookupState(lambdaStates, f.rt)
           fresh == FreshState(lambdaStates)
           rec == IF found # 0 THEN found ELSE fresh
       IN /\ lambdaStates' = getLambdaState(lambdaStates, f.rt)
          /\ fl' = [fl EXCEPT ![p] =
                      [f EXCEPT !.state = rec,
                                !.pc = IF f.op = "EnsureLoaded" THEN "el_lock"
                                       ELSE "rs_lock1"]]
    /\ tableMu' = NoProc
    /\ UNCHANGED <<recs, rts, flLeft>>

\* state.mu.Lock() in EnsureLoaded (lines 64, 83) and waitForLoad (line 106).
FleetStateLock(p) ==
    /\ fl[p].pc \in {"el_lock", "el_relock", "wf_lock"}
    /\ Acquire(p, StateLock(fl[p].state))
    /\ fl' = [fl EXCEPT ![p].pc =
                CASE fl[p].pc = "el_lock" -> "el_check"
                  [] fl[p].pc = "el_relock" -> "el_store"
                  [] OTHER -> "wf_check"]
    /\ UNCHANGED <<lambdaStates, flLeft>>

\* EnsureLoaded, lines 65-79, with state.mu held: the fast path, the
\* waiter's path, or becoming the loader.
FleetElCheck(p) ==
    /\ fl[p].pc = "el_check"
    /\ LET f == fl[p]
           s == recs[f.state]
       IN IF s.loaded
          THEN /\ recs' = [recs EXCEPT ![f.state].mu = NoProc]
               /\ fl' = [fl EXCEPT ![p] = FleetReturned(f, Nil)]
          ELSE IF s.loading
          THEN /\ recs' = [recs EXCEPT ![f.state].mu = NoProc]
               /\ fl' = [fl EXCEPT ![p].pc = "wf_poll"]
          ELSE /\ recs' = [recs EXCEPT ![f.state].mu = NoProc,
                                       ![f.state].loading = TRUE]
               /\ fl' = [fl EXCEPT ![p].pc = "el_load"]
    /\ UNCHANGED <<tableMu, lambdaStates, rts, flLeft>>

\* EnsureLoaded, line 81: loadWithRetry runs with no lock held.
FleetElLoad(p) ==
    /\ fl[p].pc = "el_load"
    /\ \E e \in FleetOutcomes(p) :
         fl' = [fl EXCEPT ![p].pc = "el_relock", ![p].err = e]
    /\ UNCHANGED <<tableMu, lambdaStates, recs, rts, flLeft>>

\* EnsureLoaded, lines 84-93, with state.mu held: a failure is recorded and
\* the lock released; a success goes on to setReady with state.mu held.
FleetElStore(p) ==
    /\ fl[p].pc = "el_store"
    /\ LET f == fl[p]
       IN IF f.err = Nil
          THEN /\ recs' = [recs EXCEPT ![f.state].loading = FALSE,
                                       ![f.state].loaded = TRUE]
               /\ fl' = [fl EXCEPT ![p].pc = "sr_lock"]
          ELSE /\ recs' = [recs EXCEPT ![f.state].loading = FALSE,
                                       ![f.state].lastError = f.err,
                                       ![f.state].mu = NoProc]
               /\ fl' = [fl EXCEPT ![p] = FleetReturned(f, f.err)]
    /\ UNCHANGED <<tableMu, lambdaStates, rts, flLeft>>

\* waitForLoad, lines 102-105: the context is done, or the ticker fires.
FleetWaitPoll(p) ==
    /\ fl[p].pc = "wf_poll"
    /\ \/ fl' = [fl EXCEPT ![p] = FleetReturned(fl[p], Canceled)]
       \/ fl' = [fl EXCEPT ![p].pc = "wf_lock"]
    /\ UNCHANGED <<tableMu, lambdaStates, recs, rts, flLeft>>

\* waitForLoad, lines 107-117, with state.mu held.
FleetWaitCheck(p) ==
    /\ fl[p].pc = "wf_check"
    /\ LET f == fl[p]
           s == recs[f.state]
       IN /\ recs' = [recs EXCEPT ![f.state].mu = NoProc]
          /\ fl' = IF s.loading THEN [fl EXCEPT ![p].pc = "wf_poll"]
                   ELSE [fl EXCEPT ![p] =
                           FleetReturned(f, IF s.loaded THEN Nil
                                            ELSE s.lastError)]
    /\ UNCHANGED <<tableMu, lambdaStates, rts, flLeft>>

\* Start, lines 226-231: configwait.Wait holds no lock; an error is
\* returned, success goes on to setReady.
FleetStartWait(p) ==
    /\ fl[p].pc = "st_wait"
    /\ \E e \in FleetOutcomes(p) :
         fl' = IF e = Nil THEN [fl EXCEPT ![p].pc = "sr_lock"]
               ELSE [fl EXCEPT ![p] = FleetReturned(fl[p], e)]
    /\ UNCHANGED <<tableMu, lambdaStates, recs, rts, flLeft>>

\* setReady, line 160: r.mu.Lock().
FleetSetReadyLock(p) ==
    /\ fl[p].pc = "sr_lock"
    /\ Acquire(p, RuntimeLock(fl[p].rt))
    /\ fl' = [fl EXCEPT ![p].pc = "sr_set"]
    /\ UNCHANGED <<lambdaStates, flLeft>>

\* setReady, lines 161-162, then the caller's return: EnsureLoaded
\* releases state.mu (line 91), Start holds none.
FleetSetReady(p) ==
    /\ fl[p].pc = "sr_set"
    /\ LET f == fl[p]
       IN /\ rts' = [rts EXCEPT ![f.rt].ready = TRUE, ![f.rt].w = NoProc]
          /\ recs' = IF f.op = "EnsureLoaded"
                     THEN [recs EXCEPT ![f.state].mu = NoProc]
                     ELSE recs
          /\ fl' = [fl EXCEPT ![p] = FleetReturned(f, Nil)]
    /\ UNCHANGED <<tableMu, lambdaStates, flLeft>>

\* ResetLoadState, lines 154 and 160: the first and the second Lock().
FleetResetLock(p) ==
    /\ fl[p].pc \in {"rs_lock1", "rs_lock2"}
    /\ Acquire(p, ResetLocks(fl[p])[IF fl[p].pc = "rs_lock1" THEN 1 ELSE 2])
    /\ fl' = [fl EXCEPT ![p].pc = IF fl[p].pc = "rs_lock1" THEN "rs_clear"
                                  ELSE "rs_body"]
    /\ UNCHANGED <<lambdaStates, flLeft>>

\* ResetLoadState, lines 156-158, between the two Lock() calls: clear
\* loaded, loading and lastError of the record; r.ready is not yet touched.
FleetResetClear(p) ==
    /\ fl[p].pc = "rs_clear"
    /\ recs' = [recs EXCEPT ![fl[p].state].loaded = FALSE,
                            ![fl[p].state].loading = FALSE,
                            ![fl[p].state].lastError = Nil]
    /\ fl' = [fl EXCEPT ![p].pc = "rs_lock2"]
    /\ UNCHANGED <<tableMu, lambdaStates, rts, flLeft>>

\* ResetLoadState, lines 161-163, with both locks held: r.ready = false,
\* r.mu.Unlock() and the deferred state.mu.Unlock().
FleetResetBody(p) ==
    /\ fl[p].pc = "rs_body"
    /\ LET f == fl[p]
       IN /\ recs' = [recs EXCEPT ![f.state].mu = NoProc]
          /\ rts' = [rts EXCEPT ![f.rt].ready = FALSE, ![f.rt].w = NoProc]
          /\ fl' = [fl EXCEPT ![p] = FleetReturned(f, Nil)]
    /\ UNCHANGED <<tableMu, lambdaStates, flLeft>>

\* IsReady, line 153: r.mu.RLock().
FleetIsReadyLock(p) ==
    /\ fl[p].pc = "ir_lock"
    /\ CanRLock(fl[p].rt)
    /\ rts' = [rts EXCEPT ![fl[p].rt].readers = @ \cup {p}]
    /\ fl' = [fl EXCEPT ![p].pc = "ir_read"]
    /\ UNCHANGED <<tableMu, lambdaStates, recs, flLeft>>

\* IsReady, lines 154-155: read r.ready, RUnlock; HealthHandler answers
\* from the value read.
FleetIsReadyRead(p) ==
    /\ fl[p].pc = "ir_read"
    /\ LET f == fl[p]
       IN /\ rts' = [rts EXCEPT ![f.rt].readers = @ \ {p}]
          /\ fl' = [fl EXCEPT ![p] =
                      [FleetReturned(f, Nil) EXCEPT !.val = rts[f.rt].ready]]
    /\ UNCHANGED <<tableMu, lambdaStates, recs, flLeft>>

\* One step of a call in flight.
FleetStep(p) ==
    \/ GetStateLock(p)
    \/ GetStateBody(p)
    \/ FleetStateLock(p)
    \/ FleetElCheck(p)
    \/ FleetElLoad(p)
    \/ FleetElStore(p)
    \/ FleetWaitPoll(p)
    \/ FleetWaitCheck(p)
    \/ FleetStartWait(p)
    \/ FleetSetReadyLock(p)
    \/ FleetSetReady(p)
    \/ FleetResetLock(p)
    \/ FleetResetClear(p)
    \/ FleetResetBody(p)
    \/ FleetIsReadyLock(p)
    \/ FleetIsReadyRead(p)

NextFleet ==
    /\ \E p \in FleetProcs :
         \/ \E name \in FleetOps, r \in Runtimes : FleetCall(p, name, r)
         \/ FleetStep(p)
    /\ UNCHANGED <<rtVars, sigVars, asyncVars, rlVars>>

\* ------------------------------------------------------------------------
\* configwait.Reloader: Start may be called several times, each call
\* spawning a goroutine that serves SIGHUPs and triggers with doReload.

\* make(chan struct{}, 1) and make(chan os.Signal, 1).
rlChCap == 1
sighupChCap == 1

\* The goroutines whose sighupCh is registered: from signal.Notify in Start
\* to the deferred signal.Stop.
RlSubscribed == { i \in RlGoroutines : rlpc[i] \notin {"none", "exited"} }

\* The goroutines inside doReload, and those inside reloadFunc.
RlInDoReload ==
    { i \in RlGoroutines :
        rlpc[i] \in {"dr_lock", "dr_check", "dr_func", "dr_defer", "dr_clear"} }
RlInReloadFunc == { i \in RlGoroutines : rlpc[i] = "dr_func" }

\* Reloader.Start, lines 42-68: subscribe and spawn the goroutine.
RlStart(i) ==
    /\ rlpc[i] = "none"
    /\ rlpc' = [rlpc EXCEPT ![i] = "select"]
    /\ UNCHANGED <<rlReloading, rlMu, rlCh, rlSig, rlCtxDone, rlLeft, rlLast>>

\* Reloader.Trigger, lines 71-79: a non-blocking send on reloadCh.
RlTrigger ==
    /\ rlLeft > 0
    /\ rlLeft' = rlLeft - 1
    /\ rlCh' = TrySend(rlCh, rlChCap)
    /\ UNCHANGED <<rlpc, rlReloading, rlMu, rlSig, rlCtxDone, rlLast>>

\* A SIGHUP: the runtime sends it, without blocking, to every registered
\* channel.
RlSighup ==
    /\ rlLeft > 0
    /\ RlSubscribed # {}
    /\ rlLeft' = rlLeft - 1
    /\ rlSig' = [i \in RlGoroutines |->
                   IF i \in RlSubscribed THEN TrySend(rlSig[i], sighupChCap)
                   ELSE rlSig[i]]
    /\ UNCHANGED <<rlpc, rlReloading, rlMu, rlCh, rlCtxDone, rlLast>>

\* The context given to NewReloader is canceled.
RlCancel ==
    /\ ~rlCtxDone
    /\ rlCtxDone' = TRUE
    /\ UNCHANGED <<rlpc, rlReloading, rlMu, rlCh, rlSig, rlLeft, rlLast>>

\* The select of lines 52-62: a ready case is taken.
RlSelect(i) ==
    /\ rlpc[i] = "select"
    /\ \/ /\ rlCtxDone
          /\ rlpc' = [rlpc EXCEPT ![i] = "exited"]
          /\ UNCHANGED <<rlCh, rlSig>>
       \/ /\ rlSig[i] > 0
          /\ rlSig' = [rlSig EXCEPT ![i] = Receive(rlSig[i])]
          /\ rlpc' = [rlpc EXCEPT ![i] = "dr_lock"]
          /\ UNCHANGED rlCh
       \/ /\ rlCh > 0
          /\ rlCh' = Receive(rlCh)
          /\ rlpc' = [rlpc EXCEPT ![i] = "dr_lock"]
          /\ UNCHANGED rlSig
    /\ UNCHANGED <<rlReloading, rlMu, rlCtxDone, rlLeft, rlLast>>

\* r.mu.Lock() in doReload (line 85) and in its deferred function (line 95).
RlLock(i) ==
    /\ rlpc[i] \in {"dr_lock", "dr_defer"}
    /\ rlMu = NoProc
    /\ rlMu' = i
    /\ rlpc' = [rlpc EXCEPT ![i] = IF rlpc[i] = "dr_lock" THEN "dr_check"
                                   ELSE "dr_clear"]
    /\ UNCHANGED <<rlReloading, rlCh, rlSig, rlCtxDone, rlLeft, rlLast>>

\* Mutant of RlSkips: doReload never skips.
RlSkips_Never(reloading) == FALSE

\* doReload, line 86: a reload in progress makes this one return.
RlSkips(reloading) == reloading

\* doReload, lines 86-92, with r.mu held.
RlCheck(i) ==
    /\ rlpc[i] = "dr_check"
    /\ rlMu' = NoProc
    /\ IF RlSkips(rlReloading)
       THEN /\ rlpc' = [rlpc EXCEPT ![i] = "select"]
            /\ UNCHANGED rlReloading
       ELSE /\ rlReloading' = TRUE
            /\ rlpc' = [rlpc EXCEPT ![i] = "dr_func"]
    /\ UNCHANGED <<rlCh, rlSig, rlCtxDone, rlLeft, rlLast>>

\* doReload, lines 102-107: reloadFunc returns nil or an error; the
\* deferred function runs next on both paths.
RlReloadFunc(i) ==
    /\ rlpc[i] = "dr_func"
    /\ rlLast' \in {"ok", "failed"}
    /\ rlpc' = [rlpc EXCEPT ![i] = "dr_defer"]
    /\ UNCHANGED <<rlReloading, rlMu, rlCh, rlSig, rlCtxDone, rlLeft>>

\* The deferred function, lines 96-97, with r.mu held.
RlClear(i) ==
    /\ rlpc[i] = "dr_clear"
    /\ rlReloading' = FALSE
    /\ rlMu' = NoProc
    /\ rlpc' = [rlpc EXCEPT ![i] = "select"]
    /\ UNCHANGED <<rlCh, rlSig, rlCtxDone, rlLeft, rlLast>>

NextReloader ==
    /\ \/ \E i \in RlGoroutines :
            \/ RlStart(i)
            \/ RlSelect(i)
            \/ RlLock(i)
            \/ RlCheck(i)
            \/ RlReloadFunc(i)
            \/ RlClear(i)
       \/ RlTrigger
       \/ RlSighup
       \/ RlCancel
    /\ UNCHANGED <<rtVars, sigVars, asyncVars, fleetVars>>

\* Goroutines calling into two Runtimes of one process.
InitFleet ==
    /\ InitCore(AllowedPathLists, {1}, {0}, {"Lambda"}, {}, 0)
    /\ FleetOn
    /\ ReloaderOff

SpecFleet == InitFleet /\ [][NextFleet]_vars

\* Every goroutine that can take a step eventually takes one.
SpecFleetFair ==
    SpecFleet /\ \A p \in FleetProcs : WF_fleetVars(FleetStep(p))

\* A Reloader started up to NStarts times.
InitReloader ==
    /\ InitCore(AllowedPathLists, {1}, {0}, {"HTTP"}, {}, 0)
    /\ FleetOff
    /\ ReloaderOn

SpecReloader == InitReloader /\ [][NextReloader]_vars

\* One goroutine calls Start, Runtime.Handler and Runtime.Reload, one
\* after the other, while the listener serves SIGHUPs and triggers.
InitReloads == InitWith({"HTTP", "Lambda"}, {1}, GateCalls)

NextReloads ==
    \/ /\ \/ NextStart
          \/ NextReload
          \/ \E s \in Setters, h \in Handlers : Handler(s, h)
          \/ \E s \in Setters : SetHandlerLock(s)
          \/ \E s \in Setters : SetHandlerClose(s)
       /\ UNCHANGED <<sigVars, asyncVars>>
    \/ NextListen

SpecReloads == InitReloads /\ [][NextReloads]_vars

\* ================================================================ claims
EnsureLoadedReturned(p) == g[p].op = "EnsureLoaded" /\ g[p].pc = "idle"
StartReturned(p) == g[p].op = "Start" /\ g[p].pc = "idle"

\* C1: on a Runtime that was never reset, once EnsureLoaded's first LoadFunc
\* invocation has returned nil, EnsureLoaded calls have invoked LoadFunc
\* exactly once in total, and every EnsureLoaded call that has returned
\* without its context being canceled (loader, waiter or fast path, however
\* the calls overlap) returned nil.
C1_ExactlyOnceUnderConcurrency ==
    (~resets /\ firstEl = "ok") =>
        /\ elInv = 1
        /\ \A p \in Callers :
             (EnsureLoadedReturned(p) /\ ~g[p].cancelled) => g[p].ret = Nil

\* Two overlapping calls, one the loader and one that waited for it, have
\* both returned nil after a single LoadFunc invocation.
C1_Witness ==
    /\ ~resets /\ firstEl = "ok" /\ elInv = 1
    /\ \E p, q \in Callers :
         /\ EnsureLoadedReturned(p) /\ g[p].role = "loader" /\ g[p].ret = Nil
         /\ EnsureLoadedReturned(q) /\ g[q].role = "waiter" /\ g[q].ret = Nil

\* C2: an EnsureLoaded call that begins after some EnsureLoaded call has
\* returned nil, with no ResetLoadState in between, takes the fast path:
\* once it has state.mu it returns nil and it invokes LoadFunc not at all,
\* neither loading nor waiting for a load.  So when the first
\* LoadFunc invocation succeeded, LoadFunc has run exactly once however many
\* calls followed.
C2_IdempotentSuccess ==
    /\ \A p \in Callers :
         g[p].late =>
           /\ g[p].op = "EnsureLoaded"
           /\ g[p].pc \in {"el_lock", "idle"}
           /\ g[p].pc = "idle" => (g[p].role = "fast" /\ g[p].ret = Nil)
           /\ g[p].inv = 0
    /\ (nilSeen /\ ~resets /\ firstEl = "ok") => elInv = 1

\* C3: a Start or EnsureLoaded call whose LoadFunc invocations failed on
\* attempts 1..k-1 and succeeded on attempt k (so k <= MaxRetries) returns
\* nil after exactly k invocations, and (no ResetLoadState having been
\* called) the Runtime is ready when it has returned.
C3_RetryThenSucceed ==
    \A p \in Callers :
        (g[p].okAt > 0 /\ g[p].op \in {"Start", "EnsureLoaded"}) =>
            /\ g[p].okAt <= maxRetries
            /\ g[p].inv = g[p].okAt
            /\ g[p].ret = Nil
            /\ g[p].pc \in {"el_finish", "sr_lock", "sr_ready", "sr_gate", "idle"}
            /\ (g[p].pc = "idle" /\ ~resets) => ready

\* A Start and an EnsureLoaded have each returned nil, one of them after a
\* failure followed by a success.
C3_Witness ==
    \E p, q \in Callers :
        /\ StartReturned(p) /\ g[p].ret = Nil /\ g[p].okAt >= 1
        /\ EnsureLoadedReturned(q) /\ g[q].ret = Nil /\ g[q].okAt >= 2
        /\ ~g[p].cancelled /\ ~g[q].cancelled
        /\ ready

\* C5: when the context is canceled while loadWithRetry or Wait is waiting
\* after attempt a, the rest of RetryInterval still to run, the call makes
\* no further LoadFunc invocation, its next step is to give up the wait,
\* and what it returns is the cancellation error, not the error of
\* attempt a.
C5_CancellationPrecedence ==
    \A p \in Callers :
        g[p].waitCancel > 0 =>
            /\ g[p].inv = g[p].waitCancel
            /\ g[p].pc \in {"lwr_wait", "w_wait", "el_finish", "idle"}
            /\ g[p].pc \in {"el_finish", "idle"} => g[p].ret = Canceled

\* A Start and an EnsureLoaded, each canceled in its wait after the first
\* failed attempt, have returned the cancellation error.
C5_Witness ==
    \E p, q \in Callers :
        /\ StartReturned(p) /\ g[p].waitCancel = 1 /\ g[p].ret = Canceled
        /\ EnsureLoadedReturned(q) /\ g[q].waitCancel = 1 /\ g[q].ret = Canceled

\* C4: a Start or EnsureLoaded call all of whose LoadFunc invocations
\* failed, and whose context was not canceled, has invoked LoadFunc exactly
\* MaxRetries times when it returns, returns the error of the last
\* invocation itself, and leaves the Runtime not ready (unless some other
\* call's load succeeded).
C4_Exhaustion ==
    \A p \in Callers :
        ( /\ g[p].pc = "idle"
          /\ g[p].op = "Start" \/ (g[p].op = "EnsureLoaded" /\ g[p].role = "loader")
          /\ g[p].okAt = 0
          /\ ~g[p].cancelled ) =>
            /\ g[p].inv = maxRetries
            /\ g[p].ret = LoadError(p, maxRetries)
            /\ ~loadOk => ~ready

\* The path is allow-listed as spec'd: the list holds "/" and the path is
\* "/", or the list holds another entry that is a prefix of the path.
AllowListed(path) ==
    \E i \in 1..Len(allowedPaths) :
        IF allowedPaths[i] = <<"/">> THEN path = <<"/">>
        ELSE HasPrefix(path, allowedPaths[i])

NotReadyResponse(path) ==
    [path |-> path, status |-> 503,
     message |-> "service not ready, configuration loading",
     retryAfter |-> 5, handler |-> NoHandler]

StartingUpResponse(path) ==
    [path |-> path, status |-> 503, message |-> "service starting up",
     retryAfter |-> 5, handler |-> NoHandler]

ForwardedTo(path, h) ==
    [path |-> path, status |-> 200, message |-> "", retryAfter |-> 0,
     handler |-> h]

\* C6: in the HTTP environment, as long as no LoadFunc invocation made by
\* Start or EnsureLoaded has returned nil, the answer to a request for a
\* path that is not allow-listed is a 503 and comes from no handler.
C6_GatedUntilFirstLoad ==
    (dpc = "idle" /\ resp # NoResp /\ ~AllowListed(resp.path) /\ ~loadOk) =>
        /\ resp.status = 503
        /\ resp.handler = NoHandler

\* C7: a dispatch that finds the path not allow-listed and the gate not
\* ready ends at once with 503, the message "service not ready,
\* configuration loading", Retry-After 5 and no handler called, whether or
\* not a handler is set.
C7_NotReadyResponse ==
    [][ (dpc = "serving" /\ ~AllowListed(dpath) /\ ~gateReady /\ dpc' # "serving")
          => (dpc' = "idle" /\ resp' = NotReadyResponse(dpath)) ]_vars

\* A request for a path that is not allowed was refused with the not-ready
\* message although a handler is set.
C7_Witness ==
    /\ dpc = "idle" /\ resp = NotReadyResponse(<<"/", "a">>)
    /\ gateHandler # NoHandler
    /\ ~gateReady

\* C8: a dispatch of an allow-listed path ends at once: forwarded to the
\* handler set at that moment if there is one, ready or not, and answered
\* 503 "service starting up" if none is set.
C8_AllowedPathDispatch ==
    [][ (dpc = "serving" /\ AllowListed(dpath) /\ dpc' # "serving")
          => /\ dpc' = "idle"
             /\ resp' = IF gateHandler # NoHandler
                        THEN ForwardedTo(dpath, gateHandler)
                        ELSE StartingUpResponse(dpath) ]_vars

\* An allow-listed path was forwarded while the gate is not ready.
C8_Witness ==
    /\ dpc = "idle" /\ resp.status = 200 /\ AllowListed(resp.path)
    /\ resp.handler = gateHandler
    /\ ~gateReady

\* C9: a dispatch that ends while the gate is ready, of any path, is
\* forwarded to the handler set at that moment; it is answered 503 "service
\* starting up" only when no handler has ever been set.
C9_ReadyDispatch ==
    [][ (dpc # "idle" /\ dpc' = "idle" /\ gateReady)
          => IF gateHandler # NoHandler
             THEN resp' = ForwardedTo(dpath, gateHandler)
             ELSE /\ resp' = StartingUpResponse(dpath)
                  /\ ~handlerReadyClosed ]_vars

\* A path that is not allow-listed was forwarded after the gate opened on a
\* successful load.
C9_Witness ==
    /\ dpc = "idle" /\ resp.status = 200 /\ ~AllowListed(resp.path)
    /\ resp.handler = gateHandler
    /\ gateReady /\ loadOk

\* C10: readiness is monotonic.  The Runtime's ready flag goes from true to
\* false only in the step of ResetLoadState that clears it, and the gate's
\* ready flag never goes from true to false: setting it again leaves it
\* true, and no step of Start, EnsureLoaded, a reload or a dispatch clears
\* either flag.
C10_MonotonicReadiness ==
    [][ /\ (ready /\ ~ready') =>
              \E p \in Callers : /\ g[p].op = "ResetLoadState"
                               /\ g[p].pc = "rs_ready"
                               /\ g'[p].pc = "idle"
        /\ gateReady => gateReady' ]_vars

\* setReady is about to store true into a gate that is already ready.
C10_Witness ==
    /\ ready /\ gateReady
    /\ \E p \in Callers : g[p].pc = "sr_gate"

\* A step of the Start call of goroutine p.
StartStep(p) ==
    /\ g[p].op = "Start" /\ g'[p].op = "Start"
    /\ <<g'[p].pc, g'[p].attempt>> # <<g[p].pc, g[p].attempt>>
InSetReady(f) == f.pc \in {"sr_lock", "sr_ready", "sr_gate"}

\* C11: Start sets readiness exactly when it returns nil.  A step of a
\* Start call changes Runtime.ready or the gate's ready flag only inside
\* setReady(true), where it sets it; a Start call returns nil exactly when
\* it returns out of setReady(true), having set the gate's flag (the
\* Runtime's flag without a gate) in that step; a call that returns an
\* error (retries exhausted, or the wait given up for ctx.Done(), which
\* returns in that very step) was never inside setReady and leaves both
\* flags as they are.
C11_StartReadyIffNil ==
    [][ \A p \in Callers : StartStep(p) =>
          /\ (ready' # ready \/ gateReady' # gateReady) => InSetReady(g[p])
          /\ g[p].pc = "sr_ready" => ready'
          /\ g[p].pc = "sr_gate" => gateReady'
          /\ InSetReady(g[p]) => (InSetReady(g'[p]) \/ g'[p].pc = "idle")
          /\ (g[p].pc # "idle" /\ g'[p].pc = "idle") =>
                (g'[p].ret = Nil <=> InSetReady(g[p]))
          /\ (g[p].pc = "w_wait" /\ g'[p].pc # "w_load") =>
                (g'[p].pc = "idle" /\ g'[p].ret = Canceled)
      ]_vars

\* One Start returned an error and left alone the two flags that another
\* Start, which returned nil, had set.
C11_Witness ==
    \E p, q \in Callers :
        /\ StartReturned(p) /\ g[p].ret # Nil
        /\ StartReturned(q) /\ g[q].ret = Nil
        /\ ready /\ gateReady

\* The EnsureLoaded call of goroutine p returns in this step: out of a
\* wait or a load, or at once on the fast path.
EnsureLoadedReturns(p) ==
    /\ g'[p].op = "EnsureLoaded" /\ g'[p].pc = "idle"
    /\ g[p].pc # "idle"

\* C12: in the step in which an EnsureLoaded call returns nil, as loader,
\* as waiter or on the fast path, Runtime.ready is true, provided no
\* ResetLoadState ran since the call began (resets before that do not
\* matter).
C12_NilImpliesReady ==
    [][ \A p \in Callers :
          (EnsureLoadedReturns(p) /\ g'[p].ret = Nil /\ ~g'[p].resetDuring)
              => ready' ]_vars

\* A Runtime that was reset during one call has been loaded again: a
\* loader and the waiter that waited for it, both begun after the reset,
\* have returned nil, and the Runtime is ready.
C12_Witness ==
    /\ resets /\ ready
    /\ \A p \in Callers : g[p].pc = "idle"
    /\ \E p, q \in Callers :
         /\ EnsureLoadedReturned(p) /\ g[p].role = "loader" /\ g[p].ret = Nil
         /\ EnsureLoadedReturned(q) /\ g[q].role = "waiter" /\ g[q].ret = Nil
         /\ ~g[p].resetDuring /\ ~g[q].resetDuring

\* Goroutine p's EnsureLoaded call, just begun, gets state.mu and looks at
\* the guard in this step, and nobody else moves.
EnsureLoadedBegins(p) ==
    /\ g[p].op = "EnsureLoaded" /\ g[p].pc = "el_lock"
    /\ g'[p].pc # "el_lock"
    /\ \A q \in Callers \ {p} : g'[q] = g[q]

\* A ResetLoadState that found the guard loaded has returned, no call has
\* got further than its beginning and the guard is as that call left it.
AfterResetOfLoaded ==
    /\ \E r \in Callers : /\ g[r].op = "ResetLoadState" /\ g[r].pc = "idle"
                          /\ g[r].role = "loaded"
    /\ \A q \in Callers : g[q].pc \in {"idle", "el_lock", "rs_lock"}
    /\ ~loaded /\ ~loading

\* C13: when a ResetLoadState that found the guard loaded returns, ready is
\* false and the recorded error is nil; and an EnsureLoaded call that
\* begins on the guard as that reset left it does not take the fast path:
\* it becomes the loader and invokes LoadFunc.
C13_ResetThenReload ==
    [][ /\ \A r \in Callers :
             (g[r].pc = "rs_ready" /\ g'[r].pc = "idle" /\ g[r].role = "loaded")
                 => (~ready' /\ lastError' = Nil /\ ~loaded' /\ ~loading')
        /\ \A p \in Callers :
             (AfterResetOfLoaded /\ EnsureLoadedBegins(p))
                 => (g'[p].role = "loader" /\ g'[p].pc = "lwr_load" /\ g'[p].inv = 1)
      ]_vars

\* An EnsureLoaded load has failed with its retries exhausted: the guard is
\* neither loaded nor loading and records the error of a LoadFunc
\* invocation (ResetLoadState would have cleared it).
LoadFailed == ~loaded /\ ~loading /\ lastError[1] = "load"

\* C14: after a failed load the failure is terminal until ResetLoadState:
\* an EnsureLoaded call that begins while the guard records a failed load
\* returns the recorded error at once and invokes LoadFunc not at all.
C14_FailureIsTerminal ==
    [][ \A p \in Callers :
          (LoadFailed /\ EnsureLoadedBegins(p))
              => (g'[p].pc = "idle" /\ g'[p].ret = lastError /\ g'[p].inv = 0)
      ]_vars

\* The listener has been started (it may have exited since).
ListenerStarted == lpc # "none"

\* C15: the reload trigger never blocks and the slot holds 0 or 1 tokens.
\* In every state, whatever the listener is doing, a trigger call can take
\* its step; the step puts a token into an empty slot, leaves a full slot
\* as it is, and touches nothing of the listener or the Runtime.
C15_TriggerNeverBlocks ==
    /\ [](reloadCh \in {0, 1} /\ (trigsLeft > 0 => ENABLED Trigger))
    /\ [][ trigsLeft' < trigsLeft =>
             /\ reloadCh' = IF reloadCh = 0 THEN 1 ELSE reloadCh
             /\ UNCHANGED <<rtVars, sigCh, sigSub, lsnVars>> ]_vars

\* Two triggers were called while the listener was busy in a reload; one
\* token is pending.
C15_Witness == burst = 2 /\ reloadCh = 1 /\ lpc = "load"

\* C16 as claimed: n >= 1 triggers called since the listener last took a
\* token (while it was busy, or before it started) leave exactly one token,
\* which the listener takes in one step that begins one LoadFunc
\* invocation; and once the listener has been started that step always
\* comes (never zero invocations).
C16_CoalescedExactlyOne ==
    /\ [](reloadCh = IF burst > 0 THEN 1 ELSE 0)
    /\ [][ (burst > 0 /\ burst' = 0) =>
             (lpc = "select" /\ lpc' = "load" /\ reloadCh' = 0) ]_vars
    /\ ((burst > 0 /\ ListenerStarted) ~> (burst = 0))

\* C16 amended: the same, but the invocation is certain to come only as
\* long as the listener's context is not canceled; a listener whose context
\* is canceled may exit and leave the token in the slot.
C16_CoalescedAtMostOne ==
    /\ [](reloadCh = IF burst > 0 THEN 1 ELSE 0)
    /\ [][ (burst > 0 /\ burst' = 0) =>
             (lpc = "select" /\ lpc' = "load" /\ reloadCh' = 0) ]_vars
    /\ ((burst > 0 /\ ListenerStarted) ~> (burst = 0 \/ lcancelled))

\* The listener, busy since it took the token of an earlier trigger, has
\* been triggered again: a batch made before it started and a batch made
\* while it was busy each left one token.
C16_Witness ==
    /\ lpc = "load" /\ burst = 1 /\ reloadCh = 1
    /\ trigsLeft = 0 /\ sigsLeft = MaxSignals /\ ~lcancelled

\* C17: while the listener runs with a live context, every trigger call is
\* followed by the beginning of a LoadFunc invocation (weak fairness of the
\* listener loop, LoadFunc returning).
C17_NoTriggerLost ==
    (owed /\ ListenerStarted) ~> (~owed \/ lcancelled)

\* A trigger called during a reload has been answered by a further reload.
C17_Witness ==
    /\ lpc = "load" /\ ~owed /\ lres # "none"
    /\ trigsLeft < MaxTriggers /\ sigsLeft = MaxSignals /\ ~lcancelled

\* C18: a reload's LoadFunc result, error or not, is dropped: when the
\* invocation returns the listener is back at its select, and nothing of
\* the Runtime, the channels, the context or done has changed; a trigger
\* owed after a failed reload is still answered by a further reload.
C18_ReloadErrorAbsorbed ==
    /\ [][ (lpc = "load" /\ lpc' # "load") =>
             /\ lpc' = "select"
             /\ UNCHANGED <<rtVars, chVars, lcancelled, doneClosed, trigVars>>
         ]_vars
    /\ ((lres = "err" /\ owed /\ ListenerStarted) ~> (~owed \/ lcancelled))

\* After a failed reload the listener is running the next one.
C18_Witness == lres = "err" /\ lpc = "load" /\ ~lcancelled

\* C19: done is closed at most once and only after the context was
\* canceled; once it is closed the listener does nothing more; and a
\* started listener whose context is canceled eventually exits with done
\* closed (LoadFunc returning).
C19_ListenerExit ==
    /\ [](doneClosed <= 1 /\ (doneClosed > 0 => lcancelled))
    /\ [][ lpc = "exited" => UNCHANGED <<lpc, doneClosed>> ]_vars
    /\ ((lcancelled /\ ListenerStarted) ~> (lpc = "exited" /\ doneClosed = 1))

\* The listener, canceled during a reload, has exited after LoadFunc
\* returned, leaving a token in the slot.
C19_Witness ==
    lpc = "exited" /\ doneClosed = 1 /\ lres # "none" /\ reloadCh = 1

\* The values errCh has delivered: those received and the one buffered.
AsyncDelivered == arecv \o errCh

\* C20: StartAsync returns before any of Start has run; errCh delivers at
\* most one value, never before the background Start returned, and that
\* value is Start's result; errCh is closed only after the value was sent;
\* and the spawned goroutine always ends with the value sent and errCh
\* closed, whether or not anybody receives (the scheduler running the
\* goroutine, LoadFunc returning).
C20_StartAsyncDelivers ==
    /\ [][ (apc = "none" /\ apc' # "none") =>
             /\ g'[abg'].pc = "go"
             /\ UNCHANGED <<cfgVars, ready, gateVars, guardVars, histVars>>
         ]_vars
    /\ [](/\ Len(AsyncDelivered) <= 1
          /\ Len(AsyncDelivered) = 1 =>
               (g[abg].pc = "idle" /\ AsyncDelivered[1] = g[abg].ret)
          /\ errChClosed => Len(AsyncDelivered) = 1)
    /\ ((apc # "none") ~> (errChClosed /\ apc = "done"))

\* The background Start failed after retrying; its error sits in errCh,
\* which is closed, and nobody has received.
C20_Witness ==
    /\ errChClosed /\ apc = "done" /\ arecv = <<>>
    /\ Len(errCh) = 1 /\ errCh[1] # Nil /\ g[abg].inv >= 2

\* C21: Runtime.Handler(inner) in the Lambda environment returns inner and
\* touches no gate, and the requests served with it are answered by inner
\* whatever the readiness; in the HTTP environment it installs inner as
\* the gate's handler (the first thing the call does) and returns the
\* gate, a handler installed and handlerReady closed by then, and a
\* request for a path that is not allowed is refused while the gate is
\* not ready.
C21_HandlerByEnvironment ==
    /\ [][ (served' # served \/ gateHandler' # gateHandler) =>
             IF env = "Lambda"
             THEN /\ served'[1] = "inner" /\ served'[2] \in Handlers
                  /\ UNCHANGED gateVars
             ELSE /\ gateHandler' \in Handlers
                  /\ gateHandler' # gateHandler =>
                        \E s \in Setters :
                            /\ sh[s].pc = "idle" /\ sh'[s].op = "Handler"
                            /\ sh'[s].pc = "sh_lock" /\ sh'[s].h = gateHandler'
                  /\ served' # served =>
                        /\ served' = TheGate /\ handlerReadyClosed'
                        /\ \E s \in Setters :
                              /\ sh[s].op = "Handler" /\ sh[s].pc = "sh_close"
                              /\ sh'[s].pc = "idle"
         ]_vars
    /\ [][ (dpc = "serving" /\ dpc' # "serving") =>
             IF env = "Lambda"
             THEN dpc' = "idle" /\ resp' = ForwardedTo(dpath, served[2])
             ELSE (~AllowListed(dpath) /\ ~gateReady) =>
                     (dpc' = "idle" /\ resp' = NotReadyResponse(dpath))
         ]_vars

\* In the Lambda environment a request for a path that is not allowed was
\* answered by the inner handler while the Runtime was not ready.
C21_Witness ==
    /\ env = "Lambda" /\ ~ready /\ dpc = "idle"
    /\ resp.status = 200 /\ resp.handler = served[2] /\ served[1] = "inner"
    /\ ~AllowListed(resp.path)

\* C22: whatever Config.MaxRetries NewRuntime was given, the Runtime it
\* returned has an effective MaxRetries of at least 1 (NewRuntime rejects
\* no MaxRetries value, so every input yields a Runtime).
C22_MaxAttemptsEnforced == maxRetries >= 1

\* The goroutines whose Runtime.Reload call is executing LoadFunc.
Reloading == {p \in Callers : g[p].op = "Reload" /\ g[p].pc = "rl_load"}

\* C23: concurrent Runtime.Reload calls are coalesced: at no time are two
\* of them each executing a LoadFunc invocation of their own.
C23_ReloadCoalesced == Cardinality(Reloading) <= 1

\* C24: a caller waiting in waitForLoad never changes the guard's state as
\* it returns; while the load it waits for is still in progress it can
\* return only because its own context is canceled, and then with the
\* cancellation error; and once its context is canceled it does return,
\* whether or not the loader ever finishes.
C24_WaiterCancellation ==
    /\ [][ \A p \in Callers :
             (g[p].pc = "el_wait" /\ g'[p].pc # "el_wait") =>
                /\ UNCHANGED guardVars
                /\ loading => (g[p].cancelled /\ g'[p].ret = Canceled)
         ]_vars
    /\ \A p \in Procs :
         (g[p].pc = "el_wait" /\ g[p].cancelled) ~> (g[p].pc = "idle")

\* A waiter has returned the cancellation error while the loader it was
\* waiting for is still inside LoadFunc.
C24_Witness ==
    \E p, q \in Callers :
        /\ g[p].role = "waiter" /\ g[p].pc = "idle" /\ g[p].ret = Canceled
        /\ g[q].role = "loader" /\ g[q].pc = "lwr_load" /\ loading

\* C25: a caller that found another caller loading and is not canceled
\* makes no LoadFunc invocation and returns what that loader returned: it
\* returns only after a loader has finished, and with the result of the
\* first loader to finish since it began to wait.
C25_WaiterGetsLoaderOutcome ==
    [][ \A p \in Callers :
          (g[p].pc = "el_wait" /\ g'[p].pc = "idle" /\ ~g[p].cancelled) =>
             /\ g'[p].inv = 0
             /\ g[p].heard # NoOutcome
             /\ g'[p].ret = g[p].heard
      ]_vars

\* The goroutines inside the loadWithRetry call of their EnsureLoaded.
InLoadWithRetry == {p \in Callers : g[p].pc \in {"lwr_load", "lwr_wait"}}

\* C26: whatever the interleaving of EnsureLoaded and ResetLoadState calls,
\* at most one goroutine is inside loadWithRetry at any time.
C26_OneLoaderAtATime == Cardinality(InLoadWithRetry) <= 1

\* The goroutines inside a LoadFunc invocation made by EnsureLoaded or by
\* Start.
InLoadFunc == {p \in Callers : g[p].pc \in {"lwr_load", "w_load"}}

\* The goroutines in front of a Lock or RLock of state.mu or r.mu, or inside
\* a section guarded by one of them.
AtLocks(p) ==
    g[p].pc \in {"el_lock", "el_finish", "sr_lock", "sr_ready", "sr_gate",
                 "rs_lock", "rs_rlock", "rs_ready", "ir_lock", "ir_read"}

\* C27 as stated: in every state where a LoadFunc invocation made by
\* EnsureLoaded or Start is executing, state.mu and r.mu are free.
C27_LocksFreeDuringLoad ==
    InLoadFunc # {} => (stateMu = NoProc /\ rMu = NoProc /\ rReaders = {})

\* C27: no lock is held across LoadFunc.  A goroutine inside a LoadFunc
\* invocation of EnsureLoaded or Start holds neither state.mu nor r.mu;
\* whoever holds one of them is inside a section that contains no load and
\* no wait (setReady, ResetLoadState, IsReady's read); and so a goroutine
\* in front of one of the locks or inside such a section (IsReady,
\* ResetLoadState, the state check of an EnsureLoaded) gets past it even
\* if no LoadFunc invocation ever returns.
C27_NoLockAcrossLoad ==
    /\ [](\A p \in InLoadFunc : stateMu # p /\ rMu # p /\ p \notin rReaders)
    /\ [](/\ stateMu # NoProc =>
               g[stateMu].pc \in {"sr_lock", "sr_ready", "sr_gate", "rs_rlock", "rs_ready"}
          /\ rMu # NoProc => g[rMu].pc \in {"sr_ready", "rs_ready"}
          /\ \A p \in rReaders : g[p].pc = "ir_read")
    /\ \A p \in Procs : AtLocks(p) ~> ~AtLocks(p)

\* While one goroutine is inside a LoadFunc invocation another is inside
\* IsReady, holding r.mu for reading.
C27_Witness ==
    \E p, q \in Callers :
        /\ g[p].pc \in {"lwr_load", "w_load"} /\ g[p].inv = 1
        /\ g[q].op = "IsReady" /\ g[q].pc = "ir_read"
        /\ q \in rReaders

\* C28: with the Runtime's MaxRetries, for every sequence of LoadFunc
\* outcomes and every cancellation point, configwait.Wait and
\* loadWithRetry make the same number of LoadFunc invocations and return
\* the same result.
C28_SameRetryAlgorithm ==
    \A outs \in OutcomeSeqs : \A c \in CancelPoints :
        WaitResult(outs, c) = LoadWithRetryResult(outs, c)

\* A Start and an EnsureLoaded of the same Runtime have both returned the
\* error of their second attempt, after two failed LoadFunc invocations
\* each.
C28_Witness ==
    \E p, q \in Callers :
        /\ g[p].op = "Start" /\ g[p].pc = "idle"
        /\ g[q].op = "EnsureLoaded" /\ g[q].pc = "idle"
        /\ g[p].inv = 2 /\ g[p].ret = LoadError(p, 2)
        /\ g[q].inv = 2 /\ g[q].ret = LoadError(q, 2)
        /\ \E outs \in OutcomeSeqs :
             WaitResult(outs, MaxOutcomes + 1) = <<2, LoadError(NoProc, 2)>>

\* C29: the reloads of one listener are serialized.  At most one LoadFunc
\* invocation of the listener is executing, and exactly while the loop is
\* inside doReload; an invocation begins only from the select, that is
\* after the one before has returned; and while one is executing nothing
\* is received from reloadCh or sigCh, so a trigger or SIGHUP arriving then
\* stays in its slot.
C29_ReloadsSerialized ==
    /\ [](lactive <= 1 /\ (lactive = 1 <=> lpc = "load"))
    /\ [][ lactive' > lactive => (lpc = "select" /\ lactive = 0) ]_vars
    /\ [][ lpc = "load" =>
             /\ reloadCh' >= reloadCh /\ sigCh' >= sigCh
             /\ trigsLeft' < trigsLeft => (reloadCh' = 1 /\ lactive' = 1)
             /\ sigsLeft' < sigsLeft => (sigCh' = 1 /\ lactive' = 1)
         ]_vars

\* A trigger and a SIGHUP that arrived during a reload are both held in
\* their slots while that reload is still executing.
C29_Witness ==
    lpc = "load" /\ lactive = 1 /\ reloadCh = 1 /\ sigCh = 1 /\ burst = 1

\* C30: the reload path does not coordinate with the lazy-load guard.  A
\* listener at its select with a token or a signal to receive can begin
\* its reload whatever the guard's state and whoever is inside LoadFunc;
\* beginning or ending a reload changes nothing of the guard, the locks or
\* the readiness; so a reload's LoadFunc invocation and one made by
\* EnsureLoaded or Start can be executing at the same time (the witness).
C30_ReloadIgnoresGuard ==
    /\ []( (lpc = "select" /\ reloadCh > 0) => ENABLED ListenTakeToken )
    /\ []( (lpc = "select" /\ sigCh > 0) => ENABLED ListenTakeSignal )
    /\ [][ lactive' # lactive =>
             UNCHANGED <<guardVars, muVars, ready, gateVars, g>> ]_vars

\* The listener's reload and an EnsureLoaded (or Start) of the same
\* Runtime are both inside LoadFunc.
C30_Witness ==
    /\ lpc = "load" /\ lactive = 1
    /\ \E p \in Callers :
         \/ g[p].pc = "lwr_load" /\ loading
         \/ g[p].pc = "w_load"

\* The string `prefix` is a prefix of `str`, said without HasPrefix.
IsPrefixOf(prefix, str) ==
    \E k \in 0 .. Len(str) : SubSeq(str, 1, k) = prefix

\* C31: isAllowedPath(path) is true exactly when the allowed list holds
\* "/" and the path is "/", or the list holds an entry other than "/" that
\* is a prefix of the path; and a request that is not allow-listed in this
\* sense is refused while the gate is not ready.
C31_AllowListExact ==
    /\ \A path \in AllPaths :
         isAllowedPath(path) <=>
            \E i \in 1 .. Len(allowedPaths) :
                \/ allowedPaths[i] = <<"/">> /\ path = <<"/">>
                \/ allowedPaths[i] # <<"/">> /\ IsPrefixOf(allowedPaths[i], path)
    /\ (dpc = "idle" /\ resp.status = 503
           /\ resp.message = "service not ready, configuration loading")
         => ~isAllowedPath(resp.path)

\* With "/" the only entry of the list, the request for "/a" was refused
\* as not ready.
C31_Witness ==
    /\ allowedPaths = << <<"/">> >>
    /\ dpc = "idle" /\ resp.path = <<"/", "a">> /\ resp.status = 503
    /\ resp.message = "service not ready, configuration loading"

\* C32: no SetHandler or Runtime.Handler call with a non-nil handler
\* panics, whatever the handlers' concrete types, and every request
\* forwarded goes to the handler passed to the latest such call.
C32_SwapAnyTypes ==
    [][ /\ ~setHandlerPanic'
        /\ (dpc # "idle" /\ dpc' = "idle" /\ resp'.status = 200)
              => resp'.handler = setHandlerArg ]_vars

\* C33: a Start call that returned nil had a LoadFunc invocation that
\* returned nil, whatever MaxRetries the Config gave; a Start call about to
\* mark the Runtime ready had one as well.
C33_StartNilOnlyAfterLoad ==
    \A p \in Callers :
        /\ (StartReturned(p) /\ g[p].ret = Nil) => g[p].okAt >= 1
        /\ (g[p].op = "Start" /\ InSetReady(g[p])) => g[p].okAt >= 1

\* C34: EnsureLoaded, ResetLoadState, IsReady, Start and HealthHandler
\* calls on the same or different Runtimes never deadlock: a goroutine
\* acquires a mutex only while holding mutexes that come earlier in the
\* order table lock, state lock, Runtime lock; while a call is in flight
\* some call in flight can take a step; and a goroutine holding mutexes
\* eventually holds none.
C34_NoDeadlock ==
    /\ [](\A p \in FleetProcs :
            \A h \in HeldLocks(p), w \in WantedLock(fl[p]) :
                LockRank(h) < LockRank(w))
    /\ []((\E p \in FleetProcs : fl[p].pc # "idle")
            => \E p \in FleetProcs :
                   fl[p].pc # "idle" /\ ~FleetBlocked(fl[p]))
    /\ \A p \in FleetProcs : (HeldLocks(p) # {}) ~> (HeldLocks(p) = {})

\* The loader on Runtime A is in setReady holding its state lock and the
\* Runtime lock, and a ResetLoadState on A is blocked on the state lock.
C34_Witness ==
    \E p, q \in FleetProcs :
        /\ fl[p].op = "EnsureLoaded" /\ fl[p].pc = "sr_set" /\ fl[p].rt = "A"
        /\ HeldLocks(p) = {StateLock(fl[p].state), RuntimeLock("A")}
        /\ fl[q].op = "ResetLoadState" /\ fl[q].rt = "A"
        /\ fl[q].pc = "rs_lock1" /\ FleetBlocked(fl[q])

\* The lazy-load state and the readiness of Runtime r as its callers see
\* them; a Runtime with no record yet has the zero lambdaState.
GuardOf(r) ==
    LET s == IF lambdaStates[r] # 0 THEN recs[lambdaStates[r]]
             ELSE NewLambdaState
    IN <<s.loading, s.loaded, s.lastError, rts[r].ready>>

\* C37: a step changes the loading/loaded/lastError state or the readiness
\* of a Runtime only if it is a step of a call on that Runtime; every call
\* past getLambdaState works on the record the table holds for its
\* Runtime, and no two Runtimes share a record.
C37_OneGuardPerRuntime ==
    [][ /\ \A r \in Runtimes :
             GuardOf(r)' # GuardOf(r)
                => \E p \in FleetProcs :
                       fl[p].rt = r /\ fl[p].pc # "idle" /\ fl'[p] # fl[p]
        /\ \A p \in FleetProcs :
             fl'[p].state # 0 => fl'[p].state = lambdaStates'[fl'[p].rt]
        /\ \A r1, r2 \in Runtimes :
             (r1 # r2 /\ lambdaStates'[r1] # 0)
                => lambdaStates'[r1] # lambdaStates'[r2]
      ]_vars

\* Runtime A is loaded and ready while an EnsureLoaded on Runtime B is
\* loading with B's own record, B not ready.
C37_Witness ==
    /\ lambdaStates["A"] # 0 /\ lambdaStates["B"] # 0
    /\ recs[lambdaStates["A"]].loaded /\ rts["A"].ready
    /\ recs[lambdaStates["B"]].loading /\ ~recs[lambdaStates["B"]].loaded
    /\ ~rts["B"].ready
    /\ \E q \in FleetProcs :
          /\ fl[q].op = "EnsureLoaded" /\ fl[q].rt = "B"
          /\ fl[q].pc = "el_load" /\ fl[q].state = lambdaStates["B"]

\* C35: in an HTTP-environment Runtime with no call in flight, the gate is
\* ready exactly when the Runtime is ready.
C35_GateAgreesWithRuntime ==
    (HasGate /\ \A p \in Callers : g[p].pc = "idle") => (gateReady <=> ready)

\* C36: whatever the interleaving of EnsureLoaded and ResetLoadState calls,
\* an EnsureLoaded call returns nil only when the guard's loaded flag is
\* true as the call settles its result.
C36_NilOnlyWhenLoaded ==
    [][ \A p \in Callers :
          (EnsureLoadedReturns(p) /\ g'[p].ret = Nil) => loaded' ]_vars

\* C39: an EnsureLoaded call returns the context cancellation error only
\* if the context of that very call was canceled.
C39_CancellationIsOwn ==
    [][ \A p \in Callers :
          (EnsureLoadedReturns(p) /\ g'[p].ret = Canceled) => g[p].cancelled
      ]_vars

\* A step of a reload: of the listener's goroutine or its LoadFunc
\* invocation, or of a Runtime.Reload call.
ReloadStep ==
    \/ lsnVars' # lsnVars
    \/ \E p \in Callers : g'[p].op = "Reload" /\ g'[p] # g[p]

\* C38: a reload, through SIGHUP, ReloadCallback or Runtime.Reload, leaves
\* the Runtime's readiness, the gate's ready flag, the gate's handler and
\* the lazy-load state as they were, whatever LoadFunc returned.
C38_ReloadLeavesReadiness ==
    [][ ReloadStep =>
          UNCHANGED <<ready, gateReady, gateHandler, loading, loaded, lastError>>
      ]_vars

\* The Runtime is ready with its handler set after a Runtime.Reload call,
\* made once Start had succeeded, has failed and the listener's reload has
\* failed as well.
C38_Witness ==
    /\ ready /\ HasGate /\ gateReady /\ gateHandler # NoHandler
    /\ callsLeft = 0
    /\ \E p \in Callers :
          g[p].op = "Reload" /\ g[p].pc = "idle" /\ g[p].ret # Nil
    /\ lres = "err" /\ lactive = 0

\* C40: at most one goroutine of a Reloader is inside reloadFunc at any
\* time, however many times Start was called, and reloading is false
\* whenever no goroutine is inside doReload.
C40_OneReloadInFlight ==
    /\ Cardinality(RlInReloadFunc) <= 1
    /\ RlInDoReload = {} => ~rlReloading

\* Two goroutines were started; after a reload that failed, one is inside
\* reloadFunc again while the other, inside doReload with the lock held,
\* finds reloading true.
C40_Witness ==
    \E i, j \in RlGoroutines :
        /\ rlpc[i] = "dr_func" /\ rlpc[j] = "dr_check"
        /\ rlReloading /\ rlLast = "failed"

====
